---- MODULE Spec2Model ----
(***************************************************************************)
(* KTS Analyzer: the data-reshaping pipeline and the run that drives it.   *)
(*                                                                         *)
(*   services/data_service.py   MiningDataService.load_and_prepare_data    *)
(*                              MiningDataService.get_analysis_dataframe   *)
(*   controllers/main_controller.py   MainController.run_analysis          *)
(*                                    MainController._update_status        *)
(*   services/report_service.py   XlsxReportService.generate_report,       *)
(*                                the sheets Processed_Data and            *)
(*                                Correlation Analysis, name_idx           *)
(*   views/main_view.py   MainView.browse_input, browse_output,            *)
(*                        start_analysis_thread, update_status             *)
(*   run.py   main, run_cli, run_gui, run_interactive_cli                  *)
(*   OLD Version/mining_excel_analyzer.py  MiningExcelAnalyzer._process_data*)
(*   OLD Version/mining_data_analyzer.py   MiningDataAnalyzer.process_data *)
(*                                                                         *)
(* Spec is the command-line run (and the legacy tools on the same          *)
(* workbook), SpecGui the run started from the window, FairSpecGui the     *)
(* same with the worker thread and the main loop scheduled fairly,         *)
(* SpecMain the program from its command line on.                          *)
(*                                                                         *)
(* Text is modelled by TLA+ strings handled character by character (Len,   *)
(* SubSeq, \o), numbers by exact fractions [n, d] in lowest terms, cells   *)
(* of a sheet by the tagged union {NaN, Num, Str} that pandas.read_excel   *)
(* delivers.                                                               *)
(***************************************************************************)
EXTENDS Integers, Sequences, FiniteSets, TLC

(***************************************************************************)
(* Bounds of the model.                                                    *)
(***************************************************************************)
MaxRows == 2          \* data rows of a sheet
MaxDateCols == 2      \* date columns of a sheet of arbitrary headers
MaxCells == 4         \* value cells of a sheet of arbitrary value cells
MaxRuns == 2          \* analyses started in one session of the window

\* the year the run happens in: dateutil completes a 2-digit year around it
CurrentYear == 2026

(***************************************************************************)
(* Characters and strings (Python str).                                    *)
(***************************************************************************)
\* The characters of the model in code-point order.
AsciiOrder == " (),-.0123456789<>ABCDEFGHIJKLMNOPQRSTUVWXYZ_abcdefghijklmnopqrstuvwxyz"
UpperCase == "ABCDEFGHIJKLMNOPQRSTUVWXYZ"
LowerCase == "abcdefghijklmnopqrstuvwxyz"
Digits == "0123456789"

CharAt(s, i) == SubSeq(s, i, i)

IndexIn(c, alphabet) ==
    IF \E i \in 1..Len(alphabet) : CharAt(alphabet, i) = c
    THEN CHOOSE i \in 1..Len(alphabet) : CharAt(alphabet, i) = c
    ELSE 0

Ord(c) == IndexIn(c, AsciiOrder)

\* str < str in Python: lexicographic by code point, a proper prefix first.
RECURSIVE StrLess(_, _)
StrLess(a, b) ==
    IF Len(b) = 0 THEN FALSE
    ELSE IF Len(a) = 0 THEN TRUE
    ELSE IF Head(a) = Head(b) THEN StrLess(Tail(a), Tail(b))
    ELSE Ord(Head(a)) < Ord(Head(b))

\* str.lower()
RECURSIVE lower(_)
lower(s) ==
    IF Len(s) = 0 THEN ""
    ELSE LET c == Head(s)
             i == IndexIn(c, UpperCase)
         IN  (IF i = 0 THEN c ELSE CharAt(LowerCase, i)) \o lower(Tail(s))

\* str.strip(): the only whitespace of the model is the blank.
RECURSIVE lstrip(_)
lstrip(s) == IF Len(s) > 0 /\ Head(s) = " " THEN lstrip(Tail(s)) ELSE s

RECURSIVE rstrip(_)
rstrip(s) ==
    IF Len(s) > 0 /\ CharAt(s, Len(s)) = " "
    THEN rstrip(SubSeq(s, 1, Len(s) - 1))
    ELSE s

strip(s) == rstrip(lstrip(s))

StartsWith(s, p) == Len(p) <= Len(s) /\ SubSeq(s, 1, Len(p)) = p

\* `sub in s`
RECURSIVE Contains(_, _)
Contains(s, sub) ==
    IF StartsWith(s, sub) THEN TRUE
    ELSE IF Len(s) = 0 THEN FALSE
    ELSE Contains(Tail(s), sub)

\* str.replace(old, new) / re.sub of a literal pattern: every non-overlapping
\* occurrence, leftmost first.  old is never empty.
RECURSIVE Replace(_, _, _)
Replace(s, old, new) ==
    IF Len(s) = 0 THEN ""
    ELSE IF StartsWith(s, old)
         THEN new \o Replace(SubSeq(s, Len(old) + 1, Len(s)), old, new)
         ELSE Head(s) \o Replace(Tail(s), old, new)

\* str.split(sep) for a one-character separator.
RECURSIVE split(_, _)
split(s, sep) ==
    IF ~Contains(s, sep) THEN <<s>>
    ELSE LET i == CHOOSE k \in 1..Len(s) :
                    /\ CharAt(s, k) = sep
                    /\ \A j \in 1..(k - 1) : CharAt(s, j) # sep
         IN  <<SubSeq(s, 1, i - 1)>> \o split(SubSeq(s, i + 1, Len(s)), sep)

IsDigits(s) == Len(s) > 0 /\ \A i \in 1..Len(s) : IndexIn(CharAt(s, i), Digits) > 0

\* the value of a digit string
RECURSIVE DigitsVal(_)
DigitsVal(s) ==
    IF Len(s) = 0 THEN 0
    ELSE 10 * DigitsVal(SubSeq(s, 1, Len(s) - 1))
         + (IndexIn(CharAt(s, Len(s)), Digits) - 1)

\* str(int), n >= 0
RECURSIVE IntStr(_)
IntStr(n) ==
    IF n < 10 THEN CharAt(Digits, n + 1)
    ELSE IntStr(n \div 10) \o CharAt(Digits, (n % 10) + 1)

(***************************************************************************)
(* Numbers (float64 values, kept exact).                                   *)
(***************************************************************************)
RECURSIVE Gcd(_, _)
Gcd(a, b) == IF b = 0 THEN a ELSE Gcd(b, a % b)

Abs(x) == IF x < 0 THEN -x ELSE x

RECURSIVE Pow10(_)
Pow10(k) == IF k = 0 THEN 1 ELSE 10 * Pow10(k - 1)

\* the fraction n/d in lowest terms, d > 0
Frac(n, d) ==
    LET g == Gcd(Abs(n), Abs(d))
        sgn == IF d < 0 THEN -1 ELSE 1
    IN  [n |-> sgn * (n \div g), d |-> sgn * (d \div g)]

FAdd(a, b) == Frac(a.n * b.d + b.n * a.d, a.d * b.d)
FDivInt(a, k) == Frac(a.n, a.d * k)
FDiv(a, b) == Frac(a.n * b.d, a.d * b.n)
Zero == Frac(0, 1)

RECURSIVE FSum(_)
FSum(seq) == IF Len(seq) = 0 THEN Zero ELSE FAdd(Head(seq), FSum(Tail(seq)))

(***************************************************************************)
(* Cells of a sheet as pandas.read_excel delivers them.                    *)
(***************************************************************************)
NaN == [t |-> "nan", v |-> Zero, s |-> ""]
\* pd.NA, the missing value line 110 writes; str(pd.NA) is "<NA>"
NA == [t |-> "na", v |-> Zero, s |-> ""]
Num(q) == [t |-> "num", v |-> q, s |-> ""]
Str(x) == [t |-> "str", v |-> Zero, s |-> x]

isna(c) == c.t \in {"nan", "na"}
notna(c) == ~isna(c)

\* Text that read_excel turns into a missing cell (pandas' default na_values,
\* restricted to the words over the model's characters).
NaValues == {"", "nan", "NaN", "None", "NA", "NULL", "null", "<NA>"}

read_cell(c) == IF c.t = "str" /\ c.s \in NaValues THEN NaN ELSE c

\* float(str) / pd.to_numeric of one string: [+-]digits[.digits], blanks
\* around it allowed; anything else does not parse (NaN).
\* the number of the integer part ip and the fraction part fp
ParseParts(ip, fp) ==
    IF /\ (Len(ip) = 0 \/ IsDigits(ip))
       /\ (Len(fp) = 0 \/ IsDigits(fp))
       /\ Len(ip) + Len(fp) > 0
    THEN Num(Frac(DigitsVal(ip) * Pow10(Len(fp)) + DigitsVal(fp), Pow10(Len(fp))))
    ELSE NaN

ParseSplit(parts) ==
    IF Len(parts) = 1 THEN ParseParts(parts[1], "")
    ELSE IF Len(parts) = 2 THEN ParseParts(parts[1], parts[2])
    ELSE NaN

ParseUnsigned(b) == ParseSplit(split(b, "."))

Negate(u) == IF isna(u) THEN NaN ELSE Num(Frac(-u.v.n, u.v.d))

ParseSigned(b) ==
    IF Len(b) > 0 /\ Head(b) = "-" THEN Negate(ParseUnsigned(Tail(b)))
    ELSE ParseUnsigned(b)

ParseNumber(x) == ParseSigned(strip(x))

IsIntegral(q) == q.d = 1

\* the number of decimals needed to write q (q.d divides a power of 10)
Decimals(q) == CHOOSE k \in 0..6 :
                   /\ Pow10(k) % q.d = 0
                   /\ \A j \in 0..(k - 1) : Pow10(j) % q.d # 0

RECURSIVE ZeroPad(_, _)
ZeroPad(x, width) == IF Len(x) >= width THEN x ELSE ZeroPad("0" \o x, width)

\* str(float), q >= 0: "1234.5", "831.0"
FloatStr(q) ==
    LET k == Decimals(q)
        scaled == (q.n * Pow10(k)) \div q.d
    IN  IF k = 0 THEN IntStr(q.n) \o ".0"
        ELSE IntStr(scaled \div Pow10(k)) \o "." \o ZeroPad(IntStr(scaled % Pow10(k)), k)

(***************************************************************************)
(* Dates.                                                                  *)
(***************************************************************************)
Date(y, m, d) == [y |-> y, m |-> m, d |-> d]

DateLess(a, b) ==
    \/ a.y < b.y
    \/ a.y = b.y /\ a.m < b.m
    \/ a.y = b.y /\ a.m = b.m /\ a.d < b.d

\* self.month_map, in the order of the dict
month_map == << <<"ene", "Jan">>, <<"feb", "Feb">>, <<"mar", "Mar">>, <<"abr", "Apr">>,
                <<"may", "May">>, <<"jun", "Jun">>, <<"jul", "Jul">>, <<"ago", "Aug">>,
                <<"sep", "Sep">>, <<"oct", "Oct">>, <<"nov", "Nov">>, <<"dic", "Dec">> >>

\* Series.replace(self.month_map, regex=True) on one string: every key, in the
\* order of the dict, replaced wherever it occurs.
RECURSIVE ReplaceMonths(_, _)
ReplaceMonths(x, i) ==
    IF i > Len(month_map) THEN x
    ELSE ReplaceMonths(Replace(x, month_map[i][1], month_map[i][2]), i + 1)

\* df_long['Date'].astype(str).str.lower().replace(self.month_map, regex=True)
CleanDateToken(tok) == ReplaceMonths(lower(tok), 1)

\* the month names dateutil knows, compared without regard to case
EnglishMonths == <<"jan", "feb", "mar", "apr", "may", "jun",
                   "jul", "aug", "sep", "oct", "nov", "dec">>

EnglishMonth(x) ==
    IF \E m \in 1..12 : EnglishMonths[m] = lower(x)
    THEN CHOOSE m \in 1..12 : EnglishMonths[m] = lower(x)
    ELSE 0

\* dateutil's expansion of a year without century: the century of the current
\* year, moved by 100 to stay within 50 years of the current year.
convertyear(yy) ==
    LET y == yy + (CurrentYear \div 100) * 100
    IN  IF y >= CurrentYear + 50 THEN y - 100
        ELSE IF y < CurrentYear - 50 THEN y + 100
        ELSE y

\* the years a datetime64[ns] can hold
MinYear == 1678
MaxYear == 2261

\* pd.to_datetime of one string "<month name>-<digits>" (no format given).
\*   4 digits: the year; the day defaults to 1.
\*   2 digits above 31: a year without century (convertyear).
\*   2 digits up to 31: dateutil reads a day of the month and finds no year;
\*     pandas completes it from the year 1, which datetime64[ns] cannot hold.
\* Anything else does not parse.  NaT stands for the failure.
NaT == [y |-> 0, m |-> 0, d |-> 0]

to_datetime(x) ==
    LET parts == split(x, "-")
    IN  IF Len(parts) # 2 \/ EnglishMonth(parts[1]) = 0 \/ ~IsDigits(parts[2]) THEN NaT
        ELSE LET m == EnglishMonth(parts[1])
                 n == DigitsVal(parts[2])
             IN  IF Len(parts[2]) = 4
                 THEN (IF n >= MinYear /\ n <= MaxYear THEN Date(n, m, 1) ELSE NaT)
                 ELSE IF Len(parts[2]) = 2 /\ n > 31 THEN Date(convertyear(n), m, 1)
                 ELSE NaT

(***************************************************************************)
(* Sequences.                                                              *)
(***************************************************************************)
Range(seq) == {seq[i] : i \in 1..Len(seq)}

RECURSIVE Flatten(_)
Flatten(seqs) == IF Len(seqs) = 0 THEN <<>> ELSE Head(seqs) \o Flatten(Tail(seqs))

RECURSIVE SelectIdx(_, _, _)
\* the indices i of 1..n, ascending, for which Keep[i] holds
SelectIdx(Keep, i, n) ==
    IF i > n THEN <<>>
    ELSE (IF Keep[i] THEN <<i>> ELSE <<>>) \o SelectIdx(Keep, i + 1, n)

(***************************************************************************)
(* The alphabets of the model: the headers and cells its sheets are made   *)
(* of.                                                                     *)
(***************************************************************************)
Ids(c, sc, u) == [Category |-> c, SubCategory |-> sc, Unit |-> u]

V406 == Num(Frac(4068, 10))
V549 == Num(Frac(5491, 10))
V0 == Num(Frac(0, 1))

OreRGM == Ids(Str("Ore Mined"), Str("RGM"), Str("kt"))
OverburdenRGM == Ids(Str("Overburden"), Str("RGM"), Str("kt"))
OreSar == Ids(Str("Ore Mined"), Str("Sar"), Str("kt"))
OverburdenSar == Ids(Str("Overburden"), Str("Sar"), Str("kt"))
Fleet == Ids(Str("Active Fleet Count (Aprox)"), NaN, NaN)
Diesel == Ids(Str("Liter of Diesel Consumed "), NaN, NaN)

\* date column headers: every month with a 4-digit year, some with 2 digits,
\* in other letter cases, and one that is no month
DateTokens ==
    {"ene-2020", "feb-2020", "mar-2020", "abr-2020", "may-2020", "jun-2020",
     "jul-2020", "ago-2020", "sep-2020", "oct-2020", "nov-2020", "dic-2020",
     "ene-20", "feb-20", "dic-99", "feb-75", "ENE-2021", "Dic-2021", "xyz-20", "xyz-2020"}

\* the headers of the sheets of more than one date column
MixedTokens == {"mar-2020", "ene-2020", "dic-99", "ene-20", "xyz-20", "Dic-2021"}

GoodTokens == <<"feb-2020", "ene-2020", "mar-2021">>

\* value cells: numbers, European text, plain text, noise, nothing
ValueCells ==
    {Num(Frac(12345, 10)), Num(Frac(831, 1)), Str("1.234,5"), Str("abc"), NaN}

CategoryCells == {Str("Ore Mined"), Str(" Ore Mined "), Str("NONE"), Str(" "), NaN}
SubCategoryCells == {Str("RGM"), Str("kt"), Str("nan "), Str("none"), NaN}
UnitCells == {Str("kt"), Str(" None"), Str("Nan"), NaN}

PivotMetrics == {OreSar, OverburdenRGM, Fleet, Diesel}
PivotCells == {V406, V549}

Headers == DateTokens \cup MixedTokens \cup Range(GoodTokens)
AllValueCells == ValueCells \cup PivotCells \cup {V0}
AllIdCells ==
    CategoryCells \cup SubCategoryCells \cup UnitCells
    \cup UNION {{m.Category, m.SubCategory, m.Unit} :
                  m \in PivotMetrics \cup {OreRGM, OverburdenRGM, OreSar, Fleet, Diesel}}
Dtypes == {"object", "float64", "int64"}

(***************************************************************************)
(* The loader: MiningDataService.load_and_prepare_data                     *)
(*                                                                         *)
(* A file is [kind, cols, rows]: kind "missing" (no such path), "corrupt"  *)
(* (not a readable workbook) or "sheet"; cols are the headers of the date  *)
(* columns (the 4th column onward), rows the data rows, each with the      *)
(* three identifier cells and one value cell per date column.              *)
(***************************************************************************)
\* pd.read_excel(file_path, sheet_name=..., header=0)
read_excel(f) ==
    [cols |-> f.cols,
     rows |-> [i \in 1..Len(f.rows) |->
                 [Category    |-> read_cell(f.rows[i].Category),
                  SubCategory |-> read_cell(f.rows[i].SubCategory),
                  Unit        |-> read_cell(f.rows[i].Unit),
                  vals        |-> [j \in 1..Len(f.cols) |-> read_cell(f.rows[i].vals[j])]]]]

\* the dtype pandas infers for date column j of the frame
ColDtype(df, j) ==
    IF \E i \in 1..Len(df.rows) : df.rows[i].vals[j].t = "str" THEN "object"
    ELSE IF \E i \in 1..Len(df.rows) :
               \/ isna(df.rows[i].vals[j])
               \/ ~IsIntegral(df.rows[i].vals[j].v) THEN "float64"
    ELSE "int64"

\* pd.melt(df, id_vars=id_cols, value_vars=date_cols, var_name='Date',
\* value_name='Value'): one row per (date column, data row), column by column.
\* vtype is the type the value has inside the melted column.
melt(df) ==
    Flatten([j \in 1..Len(df.cols) |->
               [i \in 1..Len(df.rows) |->
                  [Category    |-> df.rows[i].Category,
                   SubCategory |-> df.rows[i].SubCategory,
                   Unit        |-> df.rows[i].Unit,
                   Date        |-> df.cols[j],
                   Value       |-> df.rows[i].vals[j],
                   vtype       |-> ColDtype(df, j)]]])

\* pd.api.types.is_numeric_dtype(df_long['Value'])
is_numeric_dtype(long) == \A i \in 1..Len(long) : long[i].vtype # "object"

\* .astype(str) of one element of the melted Value column: the cell c of a
\* date column of dtype d
ValueStr(c, d) ==
    IF c.t = "str" THEN c.s
    ELSE IF isna(c) THEN "nan"
    ELSE IF IsIntegral(c.v) /\ d # "float64" THEN IntStr(c.v.n)
    ELSE FloatStr(c.v)

\* lines 77-81 on one element of an object column:
\*   .astype(str).str.replace(r'\.', '', regex=True).str.replace(',', '.')
\*   pd.to_numeric(..., errors='coerce')
CleanObjectValue(c, d) ==
    ParseNumber(Replace(Replace(ValueStr(c, d), ".", ""), ",", "."))

\* CleanObjectValue over the cells of the model
CleanObjectValueOf == [c \in AllValueCells |-> [d \in Dtypes |-> CleanObjectValue(c, d)]]

\* lines 76-81: the value of one melted row after cleaning; a numeric column
\* passes through pd.to_numeric unchanged
CleanValue(r, numeric) ==
    IF numeric THEN r.Value ELSE CleanObjectValueOf[r.Value][r.vtype]

\* .astype(str) of an identifier cell
IdStr(c) ==
    IF c.t = "str" THEN c.s
    ELSE IF c.t = "na" THEN "<NA>"
    ELSE IF isna(c) THEN "nan"
    ELSE IF IsIntegral(c.v) THEN IntStr(c.v.n)
    ELSE FloatStr(c.v)

\* the strings line 110 replaces by pd.NA
NullMarkers == {"", "nan", "None"}

\* lines 105-110: .astype(str).str.strip(), then
\* df_long.replace({'': pd.NA, 'nan': pd.NA, 'None': pd.NA})
CleanId(c) ==
    LET x == strip(IdStr(c))
    IN  IF x \in NullMarkers THEN NA ELSE Str(x)

\* CleanId over the cells of the model
CleanIdOf == [c \in AllIdCells |-> CleanId(c)]

\* CleanId over the identifiers the loader returns
CleanedIdCells == {CleanId(c) : c \in AllIdCells}
CleanAgainOf == [c \in CleanedIdCells |-> CleanId(c)]

\* lines 83-88 on one header:
\*   .astype(str).str.lower().replace(self.month_map, regex=True), pd.to_datetime
ParseHeader(tok) == to_datetime(CleanDateToken(tok))

\* ParseHeader over the headers of the model
ParseHeaderOf == [tok \in Headers |-> ParseHeader(tok)]

\* sort_index(): ascending by Date, rows of equal date keep their order
RECURSIVE InsertByDate(_, _)
InsertByDate(sorted, r) ==
    IF Len(sorted) = 0 THEN <<r>>
    ELSE IF DateLess(r.Date, Head(sorted).Date) THEN <<r>> \o sorted
    ELSE <<Head(sorted)>> \o InsertByDate(Tail(sorted), r)

RECURSIVE sort_index(_)
sort_index(long) ==
    IF Len(long) = 0 THEN <<>>
    ELSE InsertByDate(sort_index(SubSeq(long, 1, Len(long) - 1)), long[Len(long)])

Ok(df) == [exc |-> "none", msg |-> "", df |-> df]
Raise(exc, msg) == [exc |-> exc, msg |-> msg, df |-> <<>>]

\* lines 97-113: the kept rows renamed, their identifiers cleaned, sorted
clean_identifiers(kept) ==
    sort_index([k \in 1..Len(kept) |->
                  [Date        |-> kept[k].Date,
                   Category    |-> CleanIdOf[kept[k].Category],
                   SubCategory |-> CleanIdOf[kept[k].SubCategory],
                   Unit        |-> CleanIdOf[kept[k].Unit],
                   Value       |-> kept[k].Value.v]])

\* lines 92-95: dropna(subset=['Value', 'Date']); nothing left is an empty frame
after_dropna(kept) ==
    IF Len(kept) = 0 THEN Ok(<<>>) ELSE Ok(clean_identifiers(kept))

dropna(cleaned) ==
    after_dropna(SelectSeq(cleaned, LAMBDA r : notna(r.Value)))

\* lines 89-90: a date that did not parse ends the load
check_dates(cleaned) ==
    IF \E i \in 1..Len(cleaned) : cleaned[i].Date = NaT
    THEN Raise("ValueError", "Failed to parse dates after cleaning")
    ELSE dropna(cleaned)

\* lines 76-88: the values and the dates of the melted rows cleaned
clean_values_and_dates(long, numeric) ==
    check_dates([i \in 1..Len(long) |->
                   [long[i] EXCEPT !.Value = CleanValue(long[i], numeric),
                                   !.Date = ParseHeaderOf[long[i].Date]]])

clean_long(long) == clean_values_and_dates(long, is_numeric_dtype(long))

\* lines 61-74: an empty sheet ends the load; otherwise the sheet is melted
melt_sheet(df) ==
    IF Len(df.rows) = 0
    THEN Raise("ValueError", "The specified sheet is empty.")
    ELSE clean_long(melt(df))

\* a loader whose handler of read errors wraps the missing file as well
load_wrapping_every_error(f) ==
    IF f.kind \in {"missing", "corrupt"} THEN Raise("ValueError", "Failed to read Excel file")
    ELSE melt_sheet(read_excel(f))

load_and_prepare_data(f) ==
    IF f.kind = "missing" THEN Raise("FileNotFoundError", "")
    ELSE IF f.kind = "corrupt" THEN Raise("ValueError", "Failed to read Excel file")
    ELSE melt_sheet(read_excel(f))

(***************************************************************************)
(* The pivot: MiningDataService.get_analysis_dataframe                     *)
(*                                                                         *)
(* A wide table is [index, columns, data]: the dates of the rows, the      *)
(* names of the columns, and data[r][c] the cell (NaN or Num) of row r and *)
(* column c.                                                               *)
(***************************************************************************)
EmptyFrame == [index |-> <<>>, columns |-> <<>>, data |-> <<>>]

\* DataFrame.empty
empty(tbl) == Len(tbl.index) = 0 \/ Len(tbl.columns) = 0

\* " - ".join(parts)
RECURSIVE join(_, _)
join(sep, parts) ==
    IF Len(parts) = 0 THEN ""
    ELSE IF Len(parts) = 1 THEN parts[1]
    ELSE parts[1] \o sep \o join(sep, Tail(parts))

\* filter(pd.notna, [...]) followed by the extraction of the strings
RECURSIVE NotNaStrings(_)
NotNaStrings(cells) ==
    IF Len(cells) = 0 THEN <<>>
    ELSE (IF notna(Head(cells)) THEN <<Head(cells).s>> ELSE <<>>)
         \o NotNaStrings(Tail(cells))

\* a MetricName that joins the three identifiers without leaving out the
\* absent ones
MetricName_NoFilter(row) ==
    join(" - ", <<IdStr(row.Category), IdStr(row.SubCategory), IdStr(row.Unit)>>)

\* lines 151-156: the MetricName of one long-format row
MetricName(row) ==
    join(" - ", NotNaStrings(<<row.Category, row.SubCategory, row.Unit>>))

RECURSIVE SortedDates(_)
SortedDates(S) ==
    IF S = {} THEN <<>>
    ELSE LET least == CHOOSE d \in S : \A e \in S : ~DateLess(e, d)
         IN  <<least>> \o SortedDates(S \ {least})

RECURSIVE SortedStrings(_)
SortedStrings(S) ==
    IF S = {} THEN <<>>
    ELSE LET least == CHOOSE x \in S : \A y \in S : ~StrLess(y, x)
         IN  <<least>> \o SortedStrings(S \ {least})

\* the values of the long rows that fall into cell (date, name), in row order
RECURSIVE GroupValues(_, _, _)
GroupValues(df, date, name) ==
    IF Len(df) = 0 THEN <<>>
    ELSE (IF Head(df).Date = date /\ MetricName(Head(df)) = name
          THEN <<Head(df).Value>> ELSE <<>>)
         \o GroupValues(Tail(df), date, name)

\* aggfunc of pivot_table (its default): the mean of the group
mean(vals) == FDivInt(FSum(vals), Len(vals))

\* a table that keeps one row per observation instead of grouping by date
pivot_table_ungrouped(df) ==
    LET index == [i \in 1..Len(df) |-> df[i].Date]
        columns == SortedStrings({MetricName(df[i]) : i \in 1..Len(df)})
    IN  [index |-> index,
         columns |-> columns,
         data |-> [r \in 1..Len(index) |->
                     [c \in 1..Len(columns) |->
                        IF MetricName(df[r]) = columns[c]
                        THEN Num(df[r].Value) ELSE NaN]]]

\* lines 159-163: df_copy.pivot_table(index='Date', columns='MetricName',
\* values='Value'): rows the distinct dates ascending, columns the distinct
\* names in sorted order, each cell the aggregate of its group, NaN without one.
pivot_table(df) ==
    LET index == SortedDates({df[i].Date : i \in 1..Len(df)})
        columns == SortedStrings({MetricName(df[i]) : i \in 1..Len(df)})
    IN  [index |-> index,
         columns |-> columns,
         data |-> [r \in 1..Len(index) |->
                     [c \in 1..Len(columns) |->
                        LET g == GroupValues(df, index[r], columns[c])
                        IN  IF Len(g) = 0 THEN NaN ELSE Num(mean(g))]]]

\* the positions of the columns whose name satisfies the test
ColumnsWhere(tbl, Test(_)) ==
    SelectIdx([c \in 1..Len(tbl.columns) |-> Test(tbl.columns[c])], 1, Len(tbl.columns))

ColumnIndex(tbl, name) ==
    IF \E c \in 1..Len(tbl.columns) : tbl.columns[c] = name
    THEN CHOOSE c \in 1..Len(tbl.columns) : tbl.columns[c] = name
    ELSE 0

\* analysis_df[cols].sum(axis=1): per row, the sum of the cells present
RowSums(tbl, cols) ==
    [r \in 1..Len(tbl.index) |->
       LET present == SelectIdx([k \in 1..Len(cols) |-> notna(tbl.data[r][cols[k]])],
                                1, Len(cols))
       IN  Num(FSum([k \in 1..Len(present) |-> tbl.data[r][cols[present[k]]].v]))]

\* analysis_df[a] / analysis_df[b].replace(0, pd.NA), row by row
RowQuotients(tbl, a, b) ==
    [r \in 1..Len(tbl.index) |->
       LET x == tbl.data[r][a]
           y == tbl.data[r][b]
       IN  IF isna(x) \/ isna(y) \/ y.v = Zero THEN NaN ELSE Num(FDiv(x.v, y.v))]

\* analysis_df[name] = series: a new last column, or the column of that name
\* overwritten in place
SetColumn(tbl, name, series) ==
    LET c == ColumnIndex(tbl, name)
    IN  IF c = 0
        THEN [index |-> tbl.index,
              columns |-> Append(tbl.columns, name),
              data |-> [r \in 1..Len(tbl.index) |-> Append(tbl.data[r], series[r])]]
        ELSE [index |-> tbl.index,
              columns |-> tbl.columns,
              data |-> [r \in 1..Len(tbl.index) |->
                          [k \in 1..Len(tbl.columns) |->
                             IF k = c THEN series[r] ELSE tbl.data[r][k]]]]

IsOreColumn(c) == Contains(c, "Ore Mined")
IsOverburdenColumn(c) == Contains(c, "Overburden")
IsTotalColumn(c) == c \in {"Total Ore Mined (kt)", "Total Overburden (kt)"}

fleet_col == "Active Fleet Count (Aprox)"
fuel_col == "Liter of Diesel Consumed"
material_col == "Total Material (kt)"

\* lines 167-202: the derived metrics, each step on the table of the step before
WithTotalOre(tbl) ==
    LET ore_cols == ColumnsWhere(tbl, IsOreColumn)
    IN  IF Len(ore_cols) > 0
        THEN SetColumn(tbl, "Total Ore Mined (kt)", RowSums(tbl, ore_cols))
        ELSE tbl

WithTotalOverburden(tbl) ==
    LET overburden_cols == ColumnsWhere(tbl, IsOverburdenColumn)
    IN  IF Len(overburden_cols) > 0
        THEN SetColumn(tbl, "Total Overburden (kt)", RowSums(tbl, overburden_cols))
        ELSE tbl

WithTotalMaterial(tbl) ==
    LET total_material_cols == ColumnsWhere(tbl, IsTotalColumn)
    IN  IF Len(total_material_cols) > 0
        THEN SetColumn(tbl, material_col, RowSums(tbl, total_material_cols))
        ELSE tbl

WithEfficiency(tbl) ==
    IF ColumnIndex(tbl, material_col) # 0 /\ ColumnIndex(tbl, fuel_col) # 0
    THEN SetColumn(tbl, "Efficiency (kt per Liter)",
                   RowQuotients(tbl, ColumnIndex(tbl, material_col), ColumnIndex(tbl, fuel_col)))
    ELSE tbl

WithProductivity(tbl) ==
    IF ColumnIndex(tbl, material_col) # 0 /\ ColumnIndex(tbl, fleet_col) # 0
    THEN SetColumn(tbl, "Productivity (kt per Fleet)",
                   RowQuotients(tbl, ColumnIndex(tbl, material_col), ColumnIndex(tbl, fleet_col)))
    ELSE tbl

get_analysis_dataframe(df) ==
    IF Len(df) = 0 THEN EmptyFrame
    ELSE WithProductivity(WithEfficiency(WithTotalMaterial(
             WithTotalOverburden(WithTotalOre(pivot_table(df))))))

(***************************************************************************)
(* The legacy loader: MiningExcelAnalyzer._process_data                    *)
(* (OLD Version/mining_excel_analyzer.py).  Its result clean_df is a wide  *)
(* table [index, columns, data] with one row per date column and one       *)
(* column per metric key, data[r][c] a number.                             *)
(***************************************************************************)
\* months_map.get(parts[0].lower(), '01')
months_map == << <<"ene", "01">>, <<"feb", "02">>, <<"mar", "03">>, <<"abr", "04">>,
                 <<"may", "05">>, <<"jun", "06">>, <<"jul", "07">>, <<"ago", "08">>,
                 <<"sep", "09">>, <<"oct", "10">>, <<"nov", "11">>, <<"dic", "12">> >>

months_map_get(key, default) ==
    IF \E i \in 1..Len(months_map) : months_map[i][1] = key
    THEN months_map[CHOOSE i \in 1..Len(months_map) : months_map[i][1] = key][2]
    ELSE default

\* lines 105-121: the date of one column header; pd.to_datetime(errors='coerce')
\* of the text "<year>-<month>-01"
legacy_parse_date(date_str) ==
    LET parts == split(date_str, "-")
    IN  IF Len(parts) # 2 THEN NaT
        ELSE LET month == months_map_get(lower(parts[1]), "01")
                 year == IF Len(parts[2]) = 2 THEN "20" \o parts[2] ELSE parts[2]
             IN  IF Len(year) = 4 /\ IsDigits(year)
                    /\ DigitsVal(year) >= MinYear /\ DigitsVal(year) <= MaxYear
                 THEN Date(DigitsVal(year), DigitsVal(month), 1)
                 ELSE NaT

\* lines 79-88: the number stored for one cell
legacy_float(parsed) == IF isna(parsed) THEN Zero ELSE parsed.v

legacy_value(val) ==
    IF notna(val)
    THEN legacy_float(IF val.t = "str"
                      THEN ParseNumber(Replace(Replace(val.s, ".", ""), ",", "."))
                      ELSE val)
    ELSE Zero

\* legacy_parse_date and legacy_value over the headers and cells of the model
legacy_parse_date_of == [tok \in Headers |-> legacy_parse_date(tok)]
legacy_value_of == [c \in AllValueCells \cup {NaN} |-> legacy_value(c)]

\* lines 66-71: the key of one row
legacy_key(row) ==
    Replace(IF notna(row.SubCategory) \/ notna(row.Unit)
            THEN strip(IdStr(row.Category)) \o "_" \o
                 (IF notna(row.SubCategory) THEN IdStr(row.SubCategory) ELSE "")
            ELSE strip(IdStr(row.Category)),
            " ", "_")

\* lines 61-93: one row of the sheet put into data_dict; rows without a
\* category, without values or with only zeros are skipped
legacy_set(before, key, values) ==
    IF \E c \in 1..Len(before.keys) : before.keys[c] = key
    THEN [keys |-> before.keys,
          vals |-> [c \in 1..Len(before.keys) |->
                      IF before.keys[c] = key THEN values ELSE before.vals[c]]]
    ELSE [keys |-> Append(before.keys, key), vals |-> Append(before.vals, values)]

legacy_put(before, row, values) ==
    IF notna(row.Category) /\ Len(values) > 0 /\ \E k \in 1..Len(values) : values[k] # Zero
    THEN legacy_set(before, legacy_key(row), values)
    ELSE before

\* data_dict after the rows 1..n: the keys in the order of their first
\* insertion, a later row of the same key replacing the values
RECURSIVE legacy_data_dict(_, _, _)
legacy_data_dict(df, date_idx, n) ==
    IF n = 0 THEN [keys |-> <<>>, vals |-> <<>>]
    ELSE legacy_put(legacy_data_dict(df, date_idx, n - 1), df.rows[n],
                    [k \in 1..Len(date_idx) |-> legacy_value_of[df.rows[n].vals[date_idx[k]]]])

\* rows of a wide table in ascending date order, equal dates in their order
RECURSIVE InsertIdxByDate(_, _, _)
InsertIdxByDate(sorted, i, dates) ==
    IF Len(sorted) = 0 THEN <<i>>
    ELSE IF DateLess(dates[i], dates[Head(sorted)]) THEN <<i>> \o sorted
    ELSE <<Head(sorted)>> \o InsertIdxByDate(Tail(sorted), i, dates)

RECURSIVE SortIdxByDate(_, _)
SortIdxByDate(idx, dates) ==
    IF Len(idx) = 0 THEN <<>>
    ELSE InsertIdxByDate(SortIdxByDate(SubSeq(idx, 1, Len(idx) - 1), dates), idx[Len(idx)], dates)

\* lines 123-137: the rows of valid date, in ascending date order
legacy_sorted(dict, dates, order) ==
    [index |-> [r \in 1..Len(order) |-> dates[order[r]]],
     columns |-> dict.keys,
     data |-> [r \in 1..Len(order) |->
                 [c \in 1..Len(dict.keys) |-> dict.vals[c][order[r]]]]]

legacy_dropna(dict, dates) ==
    legacy_sorted(dict, dates,
                  SortIdxByDate(SelectIdx([r \in 1..Len(dates) |-> dates[r] # NaT],
                                          1, Len(dates)), dates))

\* lines 95-121: the frame of data_dict, a date parsed from each date column
legacy_frame(df, date_idx, dict) ==
    legacy_dropna(dict,
                  [r \in 1..(IF Len(dict.keys) = 0 THEN 0 ELSE Len(date_idx)) |->
                     legacy_parse_date_of[df.cols[date_idx[r]]]])

\* lines 49-59: the date columns are those whose header holds a "-"
legacy_columns(df, date_idx) ==
    legacy_frame(df, date_idx, legacy_data_dict(df, date_idx, Len(df.rows)))

legacy_date_columns(df) ==
    SelectIdx([j \in 1..Len(df.cols) |-> Contains(df.cols[j], "-")], 1, Len(df.cols))

legacy_read(df) == legacy_columns(df, legacy_date_columns(df))

excel_process_data(f) == legacy_read(read_excel(f))

(***************************************************************************)
(* The legacy analyzer: MiningDataAnalyzer.process_data                    *)
(* (OLD Version/mining_data_analyzer.py).  It builds the same wide table,  *)
(* keeps a missing or unparseable cell as NaN and fills it with 0 at the   *)
(* end.  parse_date is the date rule of the legacy loader; on the headers  *)
(* of the model (a year of 2 or 4 digits) pd.to_datetime never fails.      *)
(***************************************************************************)
\* lines 173-183: the cell appended for one value
analyzer_value(val) ==
    IF notna(val)
    THEN (IF val.t = "str"
          THEN ParseNumber(Replace(Replace(val.s, ".", ""), ",", "."))
          ELSE val)
    ELSE NaN

analyzer_value_of == [c \in AllValueCells \cup {NaN} |-> analyzer_value(c)]

\* lines 159-186: one row put into data_dict unless all its values are NaN
analyzer_put(before, row, values) ==
    IF notna(row.Category) /\ Len(values) > 0 /\ \E k \in 1..Len(values) : notna(values[k])
    THEN legacy_set(before, legacy_key(row), values)
    ELSE before

RECURSIVE analyzer_data_dict(_, _, _)
analyzer_data_dict(df, date_idx, n) ==
    IF n = 0 THEN [keys |-> <<>>, vals |-> <<>>]
    ELSE analyzer_put(analyzer_data_dict(df, date_idx, n - 1), df.rows[n],
                      [k \in 1..Len(date_idx) |-> analyzer_value_of[df.rows[n].vals[date_idx[k]]]])

\* line 211: clean_df.fillna(0)
fillna(dict) ==
    [keys |-> dict.keys,
     vals |-> [c \in 1..Len(dict.vals) |->
                 [k \in 1..Len(dict.vals[c]) |->
                    IF isna(dict.vals[c][k]) THEN Zero ELSE dict.vals[c][k].v]]]

\* lines 207-208: the dates parsed, set_index('Date').sort_index()
analyzer_sorted(dict, dates) ==
    legacy_sorted(dict, dates, SortIdxByDate([r \in 1..Len(dates) |-> r], dates))

\* lines 192-211: the frame of data_dict with its dates
analyzer_frame(df, date_idx, dict) ==
    analyzer_sorted(fillna(dict),
                    [r \in 1..(IF Len(dict.keys) = 0 THEN 0 ELSE Len(date_idx)) |->
                       legacy_parse_date_of[df.cols[date_idx[r]]]])

analyzer_columns(df, date_idx) ==
    analyzer_frame(df, date_idx, analyzer_data_dict(df, date_idx, Len(df.rows)))

\* lines 127-139: no cell of the model holds a header; the first row of a
\* sheet without rows does not exist, and process_data ends without a table
analyzer_read(df) ==
    IF Len(df.rows) = 0 THEN EmptyFrame
    ELSE analyzer_columns(df, legacy_date_columns(df))

analyzer_process_data(f) == analyzer_read(read_excel(f))

(***************************************************************************)
(* The inputs of the model.                                                *)
(***************************************************************************)
Row(ids, vals) ==
    [Category |-> ids.Category, SubCategory |-> ids.SubCategory,
     Unit |-> ids.Unit, vals |-> vals]

Sheet(cols, rows) == [kind |-> "sheet", cols |-> cols, rows |-> rows]

\* the sequences of n distinct members of S
Distinct(S, n) == {q \in [1..n -> S] : \A i, j \in 1..n : i # j => q[i] # q[j]}

MissingFile == [kind |-> "missing", cols |-> <<>>, rows |-> <<>>]
CorruptFile == [kind |-> "corrupt", cols |-> <<>>, rows |-> <<>>]

\* a sheet of the three identifier columns and no date column
ShortSheet == Sheet(<<>>, <<Row(OreRGM, <<>>)>>)

\* the sample workbook cut to two metrics and two months
EndToEndSheet ==
    Sheet(<<"ene-20", "feb-20">>, <<Row(OreRGM, <<V406, V549>>), Row(Fleet, <<V549, V406>>)>>)

\* two metrics whose identifiers differ only in where the absent one stands
AmbiguousSheet ==
    Sheet(<<"feb-2020">>,
          <<Row(Ids(Str("Ore Mined"), Str("kt"), NaN), <<V406>>),
            Row(Ids(Str("Ore Mined"), NaN, Str("kt")), <<V549>>)>>)

\* the six metrics the report has columns for, over two months, one month
\* without ore at the first site
SixMetricSheet ==
    Sheet(<<"ene-2020", "feb-2020">>,
          <<Row(OreRGM, <<V406, V0>>), Row(OverburdenRGM, <<V549, V406>>),
            Row(OreSar, <<V549, V549>>), Row(OverburdenSar, <<V406, V549>>),
            Row(Fleet, <<V549, V406>>), Row(Diesel, <<V406, V549>>)>>)

\* row i of a sheet of values holds metric i
RowMetric == <<OreRGM, OverburdenRGM, Fleet>>

(***************************************************************************)
(* The sheets of the report: XlsxReportService._create_processed_data_sheet*)
(* and _create_analysis_calculation_sheet (services/report_service.py).    *)
(*                                                                         *)
(* A worksheet is a function from the 0-based positions <<row, col>> that  *)
(* were written to what was written there: a text, a date, a number or a   *)
(* formula.  A formula is [fn, refs]: "REF" the value of one cell, "SUM"   *)
(* the sum of its cells, "IFERROR_DIV" its first cell divided by its       *)
(* second, 0 when that is an error.  A cell reference is [sheet, col, row] *)
(* with the column letter and the 1-based row of the formula's text; the   *)
(* sheet "" is the sheet of the formula.                                   *)
(***************************************************************************)
TextCell(s) == [kind |-> "text", text |-> s]
DateCell(d) == [kind |-> "datetime", date |-> d]
NumberCell(x) == [kind |-> "number", value |-> x]
FormulaCell(f) == [kind |-> "formula", formula |-> f]

Ref(sheet, col_letter, row) == [sheet |-> sheet, col |-> col_letter, row |-> row]

Letters ==
    <<"A", "B", "C", "D", "E", "F", "G", "H", "I", "J", "K", "L", "M",
      "N", "O", "P", "Q", "R", "S", "T", "U", "V", "W", "X", "Y", "Z">>

\* the letter of the n-th column, n counted from 1
get_column_letter(n) == Letters[n]

\* the column, counted from 1, that a spreadsheet reads a letter as
column_index(letter) == CHOOSE n \in 1..Len(Letters) : Letters[n] = letter

data_sheet_name == "Processed_Data"
calc_sheet_name == "Correlation Analysis"
table_name == "AnalysisData"

\* lines 215-226: the header row and one row per date of the table
create_processed_data_sheet(analysis_data) ==
    [pos \in (0..Len(analysis_data.index)) \X (0..Len(analysis_data.columns)) |->
       IF pos[1] = 0
       THEN TextCell(IF pos[2] = 0 THEN "Date" ELSE analysis_data.columns[pos[2]])
       ELSE IF pos[2] = 0 THEN DateCell(analysis_data.index[pos[1]])
       ELSE NumberCell(analysis_data.data[pos[1]][pos[2]])]

\* lines 241-249: the letter of each source column, in the order of the dict
base_cols ==
    << <<"Date", "A">>,
       <<"Ore Mined - RGM - kt", "B">>,
       <<"Overburden - RGM - kt", "C">>,
       <<"Ore Mined - Sar - kt", "D">>,
       <<"Overburden - Sar - kt", "E">>,
       <<"Active Fleet Count (Aprox)", "F">>,
       <<"Liter of Diesel Consumed", "G">> >>

\* lines 252-260
calc_cols ==
    << <<"Total Ore (kt)", "H">>,
       <<"Total Overburden (kt)", "I">>,
       <<"Total Material (kt)", "J">>,
       <<"Efficiency (kt per Liter)", "K">>,
       <<"Productivity (kt per Fleet)", "L">>,
       <<"RGM Strip Ratio", "M">>,
       <<"Sar Strip Ratio", "N">> >>

\* line 262: {**base_cols, **calc_cols}; the two dicts share no key
col_map == base_cols \o calc_cols

\* c[name]
letter_of(c, name) == c[CHOOSE i \in 1..Len(c) : c[i][1] = name][2]

\* a list of name_idx that has two of the source columns the other way round
col_list_swapped ==
    <<"Date", "Overburden - RGM - kt", "Ore Mined - RGM - kt",
      "Ore Mined - Sar - kt", "Overburden - Sar - kt",
      "Active Fleet Count (Aprox)", "Liter of Diesel Consumed",
      "Total Ore (kt)", "Total Overburden (kt)", "Total Material (kt)",
      "Efficiency (kt per Liter)", "Productivity (kt per Fleet)",
      "RGM Strip Ratio", "Sar Strip Ratio">>

\* lines 581-588
col_list ==
    <<"Date", "Ore Mined - RGM - kt", "Overburden - RGM - kt",
      "Ore Mined - Sar - kt", "Overburden - Sar - kt",
      "Active Fleet Count (Aprox)", "Liter of Diesel Consumed",
      "Total Ore (kt)", "Total Overburden (kt)", "Total Material (kt)",
      "Efficiency (kt per Liter)", "Productivity (kt per Fleet)",
      "RGM Strip Ratio", "Sar Strip Ratio">>

\* lines 589-592: col_list.index(name), 0-based, or KeyError
name_idx(name) ==
    IF \E i \in 1..Len(col_list) : col_list[i] = name
    THEN [exc |-> "none", idx |-> (CHOOSE i \in 1..Len(col_list) : col_list[i] = name) - 1]
    ELSE [exc |-> "KeyError", idx |-> -1]

\* a link to the spreadsheet row of the same number as the 0-based row
link_row_above(row_idx) == row_idx

\* line 278: the row in the text of a formula written at 0-based row row_idx
formula_row(row_idx) == row_idx + 1

\* line 278: ='Processed_Data'!<letter><row>
link_formula(sheet, col_letter, row_idx) ==
    [fn |-> "REF", refs |-> <<Ref(sheet, col_letter, formula_row(row_idx))>>]

SUM(a, b) == [fn |-> "SUM", refs |-> <<a, b>>]
IFERROR_DIV(a, b) == [fn |-> "IFERROR_DIV", refs |-> <<a, b>>]

\* the cell {c[name]}{row_idx+1} of the sheet of the formula
Own(c, name, row_idx) == Ref("", letter_of(c, name), row_idx + 1)

\* a total of the ore that leaves out the second site
f_total_ore_one_site(c, row_idx) ==
    SUM(Own(c, "Ore Mined - RGM - kt", row_idx), Own(c, "Ore Mined - RGM - kt", row_idx))

\* lines 289-314: the seven formulas of one row
f_total_ore(c, row_idx) ==
    SUM(Own(c, "Ore Mined - RGM - kt", row_idx), Own(c, "Ore Mined - Sar - kt", row_idx))

f_total_over(c, row_idx) ==
    SUM(Own(c, "Overburden - RGM - kt", row_idx), Own(c, "Overburden - Sar - kt", row_idx))

f_total_mat(c, row_idx) ==
    SUM(Own(c, "Total Ore (kt)", row_idx), Own(c, "Total Overburden (kt)", row_idx))

f_efficiency(c, row_idx) ==
    IFERROR_DIV(Own(c, "Total Material (kt)", row_idx),
                Own(c, "Liter of Diesel Consumed", row_idx))

f_productivity(c, row_idx) ==
    IFERROR_DIV(Own(c, "Total Material (kt)", row_idx),
                Own(c, "Active Fleet Count (Aprox)", row_idx))

f_rgm_strip(c, row_idx) ==
    IFERROR_DIV(Own(c, "Overburden - RGM - kt", row_idx),
                Own(c, "Ore Mined - RGM - kt", row_idx))

f_sar_strip(c, row_idx) ==
    IFERROR_DIV(Own(c, "Overburden - Sar - kt", row_idx),
                Own(c, "Ore Mined - Sar - kt", row_idx))

\* lines 277-314: the calls of write_formula for one row, in program order,
\* each <<col_idx, formula>>
row_writes(sheet, row_idx) ==
    [i \in 1..Len(base_cols) |->
       <<name_idx(base_cols[i][1]).idx, link_formula(sheet, base_cols[i][2], row_idx)>>]
    \o << <<name_idx("Total Ore (kt)").idx, f_total_ore(col_map, row_idx)>>,
          <<name_idx("Total Overburden (kt)").idx, f_total_over(col_map, row_idx)>>,
          <<name_idx("Total Material (kt)").idx, f_total_mat(col_map, row_idx)>>,
          <<name_idx("Efficiency (kt per Liter)").idx, f_efficiency(col_map, row_idx)>>,
          <<name_idx("Productivity (kt per Fleet)").idx, f_productivity(col_map, row_idx)>>,
          <<name_idx("RGM Strip Ratio").idx, f_rgm_strip(col_map, row_idx)>>,
          <<name_idx("Sar Strip Ratio").idx, f_sar_strip(col_map, row_idx)>> >>

\* the positions written in the row, and what the last write left at each
written_cols(writes) == {writes[i][1] : i \in 1..Len(writes)}

last_write(writes, col) ==
    writes[CHOOSE i \in 1..Len(writes) :
              /\ writes[i][1] = col
              /\ \A j \in (i + 1)..Len(writes) : writes[j][1] # col][2]

\* lines 264-314: the header row in the order of col_map, then the formulas
create_analysis_calculation_sheet(sheet, data_rows) ==
    [pos \in {p \in (0..data_rows) \X (0..(Len(col_map) - 1)) :
                p[1] = 0 \/ p[2] \in written_cols(row_writes(sheet, p[1]))} |->
       IF pos[1] = 0 THEN TextCell(col_map[pos[2] + 1][1])
       ELSE FormulaCell(last_write(row_writes(sheet, pos[1]), pos[2]))]

\* line 325: A1:<letter of the last column><data_rows + 1>
table_range(data_rows) ==
    [first_col |-> "A", first_row |-> 1,
     last_col |-> get_column_letter(Len(col_map)), last_row |-> data_rows + 1]

NoWorkbook == [written |-> FALSE, sheets |-> <<>>, table |-> <<>>]

\* lines 84-96: the sheets of the data and of the formulas, and the table
create_workbook(analysis_data) ==
    [written |-> TRUE,
     sheets |-> [name \in {data_sheet_name, calc_sheet_name} |->
                   IF name = data_sheet_name
                   THEN create_processed_data_sheet(analysis_data)
                   ELSE create_analysis_calculation_sheet(data_sheet_name,
                                                          Len(analysis_data.index))],
     table |-> [name |-> table_name, range |-> table_range(Len(analysis_data.index)),
                columns |-> [i \in 1..Len(col_map) |-> col_map[i][1]]]]

(***************************************************************************)
(* What a spreadsheet shows for a cell: a number, nothing for a cell that  *)
(* was never written or holds no number's worth (a missing value), a text, *)
(* or an error.                                                            *)
(***************************************************************************)
NumV(x) == [k |-> "num", v |-> x]
BlankV == [k |-> "blank", v |-> Zero]
TextV == [k |-> "text", v |-> Zero]
ErrorV == [k |-> "error", v |-> Zero]

\* a reference to an empty cell shows 0
AsNumber(x) == IF x.k = "blank" THEN NumV(Zero) ELSE x

sum_value(a, b) ==
    IF a.k = "error" \/ b.k = "error" THEN ErrorV
    ELSE NumV(FAdd(IF a.k = "num" THEN a.v ELSE Zero, IF b.k = "num" THEN b.v ELSE Zero))

div_value(a, b) ==
    IF a.k \in {"error", "text"} \/ b.k \in {"error", "text"} THEN ErrorV
    ELSE IF b.k = "blank" \/ b.v = Zero THEN ErrorV
    ELSE NumV(FDiv(a.v, b.v))

iferror(x, default) == IF x.k = "error" THEN NumV(default) ELSE x

RECURSIVE cell_value(_, _, _, _)
cell_value(wb, sheet, col_letter, row) ==
    LET pos == <<row - 1, column_index(col_letter) - 1>>
        Val(ref) == cell_value(wb, IF ref.sheet = "" THEN sheet ELSE ref.sheet,
                               ref.col, ref.row)
    IN  IF pos \notin DOMAIN wb.sheets[sheet] THEN BlankV
        ELSE LET cell == wb.sheets[sheet][pos]
             IN  CASE cell.kind = "number" ->
                        IF notna(cell.value) THEN NumV(cell.value.v) ELSE BlankV
                   [] cell.kind = "formula" ->
                        LET f == cell.formula
                        IN  CASE f.fn = "REF" -> AsNumber(Val(f.refs[1]))
                              [] f.fn = "SUM" -> sum_value(Val(f.refs[1]), Val(f.refs[2]))
                              [] OTHER ->
                                   iferror(div_value(Val(f.refs[1]), Val(f.refs[2])), Zero)
                   [] OTHER -> TextV

(***************************************************************************)
(* The report generator: XlsxReportService.generate_report                 *)
(* (services/report_service.py).  What the file system does with the       *)
(* workbook is an input of the call: it is saved, or the path cannot be    *)
(* written, or a failure interrupts the sheets and the closing writer      *)
(* leaves what it had.                                                     *)
(***************************************************************************)
IOOutcomes == {"saved", "unwritable", "interrupted"}

generate_report(analysis_data, io) ==
    IF empty(analysis_data)
    THEN [exc |-> "ValueError", msg |-> "Cannot generate report from empty analysis data.",
          output |-> "none", workbook |-> NoWorkbook]
    ELSE IF io = "saved"
    THEN [exc |-> "none", msg |-> "", output |-> "written",
          workbook |-> create_workbook(analysis_data)]
    ELSE [exc |-> "OSError", msg |-> "Failed to save Excel report",
          output |-> IF io = "unwritable" THEN "none" ELSE "partial",
          workbook |-> NoWorkbook]

(***************************************************************************)
(* The controller and the view: MainController (controllers/               *)
(* main_controller.py), MainView (views/main_view.py) and run.py.          *)
(***************************************************************************)
\* a message of _update_status(message, error, final)
Msg(message, err, final) == [message |-> message, error |-> err, final |-> final]

OutputPath == "report.xlsx"

\* a check that takes every long table for a table with rows
df_never_empty(df) == FALSE

\* main_controller.py lines 73 and 80: DataFrame.empty of a table
df_empty(df) == Len(df) = 0

\* a handler that lets the run go on with the stage after the failed one
except_continue(stage) ==
    IF stage = "load" THEN "pivot" ELSE IF stage = "pivot" THEN "report" ELSE "failed"

\* lines 95-98: an exception of any stage ends the run
except_Exception(stage) == "failed"

\* line 98: the final message of a failed run
error_status(msg) == Msg("An error occurred: " \o msg, TRUE, TRUE)

\* a pivot that works on the frame of its caller
copy_alias(df) == [obj |-> "input", rows |-> df]

\* data_service.py line 147: df.copy() gives the pivot a frame of its own
copy(df) == [obj |-> "copy", rows |-> df]

\* lines 150-155: the column MetricName assigned to a frame
assign_MetricName(frame) ==
    [frame EXCEPT !.rows =
        [k \in 1..Len(frame.rows) |->
            [c \in DOMAIN frame.rows[k] \cup {"MetricName"} |->
                IF c = "MetricName" THEN MetricName(frame.rows[k]) ELSE frame.rows[k][c]]]]

\* the frame of the caller after get_analysis_dataframe(df)
caller_frame(df, worked) == IF worked.obj = "input" THEN worked.rows ELSE df

input_after_pivot(df) ==
    IF Len(df) = 0 THEN df ELSE caller_frame(df, assign_MetricName(copy(df)))

\* a view that re-enables the button at every message
reenable_always(err, final) == TRUE

\* a view that re-enables the button after an error only
reenable_on_error(err, final) == err

\* main_view.py lines 212-213: update_status re-enables the Run button
reenable(err, final) == final \/ err

\* a main loop that runs the newest callback first
after_newest(queue) == Len(queue)

\* root.after(0, ...): the main loop runs the callbacks of equal delay in the
\* order in which they were scheduled, the oldest first
after_due(queue) == 1

(***************************************************************************)
(* The state machine.                                                      *)
(*   file         the input workbook                                       *)
(*   pc           the stage MainController.run_analysis is about to run    *)
(*   df_long      the long table returned by the loader                    *)
(*   analysis_df  the wide table returned by the pivot                     *)
(*   error        the exception that ended the run ("none" while running)  *)
(*   clean_df     the table of the legacy tool                             *)
(*   legacy_pc    the position of the legacy tool: a workbook is given to  *)
(*                one program, the application or one legacy tool          *)
(*   calls        the services run_analysis has called in this run         *)
(*   console      the messages _update_status has printed                  *)
(*   output       the report file: "none", "written" or "partial"          *)
(*   workbook     the sheets of the report file that was saved last        *)
(*   exit_status  the exit status of the process, <<>> while it runs       *)
(*   view         whether a view is registered with the controller         *)
(*   after_queue  the update_status callbacks scheduled with root.after    *)
(*   status_text  the messages in the status box of the view               *)
(*   run_button   the state of the Run button                              *)
(*   runs         the analyses started from the view                       *)
(*   args         whether the flags -i and -o are on the command line      *)
(*   gui_available  whether tkinter could be imported                      *)
(*   mode         what main has selected: "start" before it has            *)
(*   input_file_var, output_file_var  the path entries of the view         *)
(*   dialog       the message box that is open, "none" without one         *)
(***************************************************************************)
VARIABLES file, pc, df_long, analysis_df, error, clean_df, legacy_pc,
          calls, console, output, workbook, exit_status,
          view, after_queue, status_text, run_button, runs,
          args, gui_available, mode, input_file_var, output_file_var, dialog

vars == <<file, pc, df_long, analysis_df, error, clean_df, legacy_pc,
          calls, console, output, workbook, exit_status,
          view, after_queue, status_text, run_button, runs,
          args, gui_available, mode, input_file_var, output_file_var, dialog>>

data_vars == <<df_long, analysis_df, clean_df, legacy_pc>>
view_vars == <<view, status_text, run_button, runs>>
main_vars == <<args, gui_available, mode>>
entry_vars == <<input_file_var, output_file_var, dialog>>

NoError == [exc |-> "none", msg |-> ""]

\* The workbook is one of: no file, an unreadable file, a sheet without date
\*   columns, the two-metric two-month sample, the sheet of two metrics
\*   with the same parts, the two-month sheet of the six metrics of the
\*   report,
\*   a sheet of one metric and one value under any header, or under several
\*   well-formed and malformed headers in any order,
\*   a sheet of any value cells, row i holding metric i,
\*   a sheet of one row of any identifier cells,
\*   a sheet of any rows of documented metrics under well-formed headers in
\*   any order.
InitFile ==
    \/ file \in {MissingFile, CorruptFile, ShortSheet, EndToEndSheet, AmbiguousSheet,
                  SixMetricSheet}
    \/ \E tok \in DateTokens : file = Sheet(<<tok>>, <<Row(OreRGM, <<V406>>)>>)
    \/ \E n \in 2..MaxDateCols : \E cols \in Distinct(MixedTokens, n) :
          file = Sheet(cols, <<Row(OreRGM, [j \in 1..n |-> V406])>>)
    \/ \E m \in 0..MaxRows : \E n \in {k \in 1..2 : m * k <= MaxCells} :
          \E cells \in [1..m -> [1..n -> ValueCells]] :
             file = Sheet(SubSeq(GoodTokens, 1, n),
                          [i \in 1..m |-> Row(RowMetric[i], cells[i])])
    \/ \E c \in CategoryCells, sc \in SubCategoryCells, u \in UnitCells :
          file = Sheet(<<GoodTokens[1]>>, <<Row(Ids(c, sc, u), <<V406>>)>>)
    \/ \E m \in 1..MaxRows : \E n \in 1..2 :
          \E cols \in Distinct({GoodTokens[1], GoodTokens[3]}, n),
             ids \in [1..m -> PivotMetrics],
             cells \in [1..m -> [1..n -> PivotCells]] :
             file = Sheet(cols, [i \in 1..m |-> Row(ids[i], cells[i])])

\* python run.py -i file -o report.xlsx: run_cli has called run_analysis
Init ==
    /\ InitFile
    /\ pc = "load"
    /\ df_long = <<>>
    /\ analysis_df = EmptyFrame
    /\ error = NoError
    /\ clean_df = EmptyFrame
    /\ legacy_pc = "load"
    /\ calls = <<>>
    /\ console = <<>>
    /\ output = "none"
    /\ workbook = NoWorkbook
    /\ exit_status = <<>>
    /\ view = FALSE
    /\ after_queue = <<>>
    /\ status_text = <<>>
    /\ run_button = "normal"
    /\ runs = 0
    /\ args = [input |-> TRUE, output |-> TRUE]
    /\ gui_available = TRUE
    /\ mode = "cli"
    /\ input_file_var = ""
    /\ output_file_var = ""
    /\ dialog = "none"

\* a controller that calls update_status of the view from the thread it is in
update_status_direct(msgs) ==
    /\ console' = console \o msgs
    /\ UNCHANGED after_queue
    /\ status_text' = IF view THEN status_text \o msgs ELSE status_text
    /\ run_button' = IF view /\ \E k \in 1..Len(msgs) : msgs[k].error \/ msgs[k].final
                     THEN "normal" ELSE run_button

\* _update_status for each message: printed, and with a view scheduled for it
\* with root.after; the view itself is not touched
update_status_all(msgs) ==
    /\ console' = console \o msgs
    /\ after_queue' = IF view THEN after_queue \o msgs ELSE after_queue
    /\ UNCHANGED <<status_text, run_button>>

\* lines 95-98: the handler of run_analysis after an exception of a stage
Failed(stage, before, exc, msg) ==
    /\ error' = [exc |-> exc, msg |-> msg]
    /\ pc' = except_Exception(stage)
    /\ update_status_all(before \o <<error_status(msg)>>)

\* run_analysis, step 1: load_and_prepare_data, then the emptiness check
LoadStage ==
    /\ pc = "load"
    /\ legacy_pc = "load"
    /\ calls' = Append(calls, "load")
    /\ \E r \in {load_and_prepare_data(file)} :
          IF r.exc # "none"
          THEN /\ Failed("load", <<Msg("Loading and preparing data...", FALSE, FALSE)>>,
                         r.exc, r.msg)
               /\ UNCHANGED df_long
          ELSE IF df_empty(r.df)
          THEN /\ Failed("load", <<Msg("Loading and preparing data...", FALSE, FALSE)>>,
                         "ValueError", "No valid data found in the file.")
               /\ UNCHANGED df_long
          ELSE /\ df_long' = r.df
               /\ pc' = "pivot"
               /\ update_status_all(<<Msg("Loading and preparing data...", FALSE, FALSE),
                                      Msg("Data loaded successfully.", FALSE, FALSE)>>)
               /\ UNCHANGED error
    /\ UNCHANGED <<file, analysis_df, clean_df, legacy_pc, output, workbook, exit_status>>
    /\ UNCHANGED <<view, runs>>
    /\ UNCHANGED main_vars
    /\ UNCHANGED entry_vars

\* run_analysis, step 2: get_analysis_dataframe, then the emptiness check
PivotStage ==
    /\ pc = "pivot"
    /\ calls' = Append(calls, "pivot")
    /\ df_long' = input_after_pivot(df_long)
    /\ \E t \in {get_analysis_dataframe(df_long)} :
          IF empty(t)
          THEN /\ Failed("pivot", <<Msg("Creating base pivot table...", FALSE, FALSE)>>,
                         "ValueError", "Failed to create pivot table.")
               /\ UNCHANGED analysis_df
          ELSE /\ analysis_df' = t
               /\ pc' = "report"
               /\ update_status_all(<<Msg("Creating base pivot table...", FALSE, FALSE),
                                      Msg("Base table created.", FALSE, FALSE)>>)
               /\ UNCHANGED error
    /\ UNCHANGED <<file, clean_df, legacy_pc, output, workbook, exit_status>>
    /\ UNCHANGED <<view, runs>>
    /\ UNCHANGED main_vars
    /\ UNCHANGED entry_vars

\* run_analysis, step 3: generate_report, then the final message
ReportStage ==
    /\ pc = "report"
    /\ calls' = Append(calls, "report")
    /\ \E io \in IOOutcomes : \E r \in {generate_report(analysis_df, io)} :
          /\ output' = r.output
          /\ workbook' = r.workbook
          /\ IF r.exc # "none"
             THEN Failed("report",
                         <<Msg("Generating Excel report with native formulas and charts...",
                               FALSE, FALSE)>>,
                         r.exc, r.msg)
             ELSE /\ pc' = "done"
                  /\ update_status_all(
                        <<Msg("Generating Excel report with native formulas and charts...",
                              FALSE, FALSE),
                          Msg("Report saved successfully to:\n" \o OutputPath, FALSE, TRUE)>>)
                  /\ UNCHANGED error
    /\ UNCHANGED <<file, exit_status>>
    /\ UNCHANGED data_vars
    /\ UNCHANGED <<view, runs>>
    /\ UNCHANGED main_vars
    /\ UNCHANGED entry_vars

\* run.py: run_analysis has returned to run_cli, run_cli to main, and main ends
CliExit ==
    /\ ~view
    /\ pc \in {"done", "failed"}
    /\ exit_status = <<>>
    /\ exit_status' = <<0>>
    /\ UNCHANGED <<file, pc, error, calls, console, output, workbook, after_queue>>
    /\ UNCHANGED data_vars
    /\ UNCHANGED view_vars
    /\ UNCHANGED main_vars
    /\ UNCHANGED entry_vars

\* MiningExcelAnalyzer.load_and_process_data on the same workbook
LegacyProcess ==
    /\ legacy_pc = "load"
    /\ pc = "load"
    /\ file.kind = "sheet"
    /\ clean_df' = excel_process_data(file)
    /\ legacy_pc' = "done"
    /\ UNCHANGED <<file, pc, df_long, analysis_df, error,
                   calls, console, output, workbook, exit_status, after_queue>>
    /\ UNCHANGED view_vars
    /\ UNCHANGED main_vars
    /\ UNCHANGED entry_vars

\* MiningDataAnalyzer.load_data / process_data on the same workbook
LegacyAnalyzerProcess ==
    /\ legacy_pc = "load"
    /\ pc = "load"
    /\ file.kind = "sheet"
    /\ clean_df' = analyzer_process_data(file)
    /\ legacy_pc' = "analyzed"
    /\ UNCHANGED <<file, pc, df_long, analysis_df, error,
                   calls, console, output, workbook, exit_status, after_queue>>
    /\ UNCHANGED view_vars
    /\ UNCHANGED main_vars
    /\ UNCHANGED entry_vars

Next ==
    \/ LoadStage
    \/ PivotStage
    \/ ReportStage
    \/ CliExit
    \/ LegacyProcess
    \/ LegacyAnalyzerProcess

Spec == Init /\ [][Next]_vars

(***************************************************************************)
(* The application with its window: python run.py without arguments.  The  *)
(* view is registered with the controller; Run starts run_analysis in a    *)
(* worker thread, whose messages reach the view through root.after, and    *)
(* the main loop of Tk runs the scheduled callbacks one at a time.         *)
(***************************************************************************)
\* the workbooks chosen in the window: no file, an unreadable file, a sheet
\* without date columns, the sample, a sheet of one value under any header,
\* a sheet of one row of any two value cells
InitGuiFile ==
    \/ file \in {MissingFile, CorruptFile, ShortSheet, EndToEndSheet}
    \/ \E tok \in DateTokens : file = Sheet(<<tok>>, <<Row(OreRGM, <<V406>>)>>)
    \/ \E cells \in [1..2 -> ValueCells] :
          file = Sheet(SubSeq(GoodTokens, 1, 2), <<Row(OreRGM, cells)>>)

InitGui ==
    /\ InitGuiFile
    /\ pc = "idle"
    /\ df_long = <<>>
    /\ analysis_df = EmptyFrame
    /\ error = NoError
    /\ clean_df = EmptyFrame
    /\ legacy_pc = "load"
    /\ calls = <<>>
    /\ console = <<>>
    /\ output = "none"
    /\ workbook = NoWorkbook
    /\ exit_status = <<>>
    /\ view = TRUE
    /\ after_queue = <<>>
    /\ status_text = <<>>
    /\ run_button = "normal"
    /\ runs = 0
    /\ args = [input |-> FALSE, output |-> FALSE]
    /\ gui_available = TRUE
    /\ mode = "gui"
    /\ input_file_var = ""
    /\ output_file_var = ""
    /\ dialog = "none"

InputPath == "data.xlsx"

\* a start that asks for no path
paths_any(in_file, out_file) == TRUE

\* main_view.py line 174: both paths are given
paths_given(in_file, out_file) == in_file # "" /\ out_file # ""

\* MainView.browse_input with a file chosen: the path is entered, and an
\* output path suggested when there is none
BrowseInput ==
    /\ view
    /\ dialog = "none"
    /\ input_file_var' = InputPath
    /\ output_file_var' = IF output_file_var = "" THEN OutputPath ELSE output_file_var
    /\ UNCHANGED <<file, pc, error, calls, console, output, workbook, exit_status, after_queue, dialog>>
    /\ UNCHANGED data_vars
    /\ UNCHANGED view_vars
    /\ UNCHANGED main_vars

\* MainView.browse_output with a file chosen
BrowseOutput ==
    /\ view
    /\ dialog = "none"
    /\ output_file_var' = OutputPath
    /\ UNCHANGED <<file, pc, error, calls, console, output, workbook, exit_status, after_queue,
                   input_file_var, dialog>>
    /\ UNCHANGED data_vars
    /\ UNCHANGED view_vars
    /\ UNCHANGED main_vars

\* the user empties one of the two path entries (ttk.Entry, lines 81 and 91)
ClearEntry ==
    /\ view
    /\ dialog = "none"
    /\ \/ input_file_var # "" /\ input_file_var' = "" /\ UNCHANGED output_file_var
       \/ output_file_var # "" /\ output_file_var' = "" /\ UNCHANGED input_file_var
    /\ UNCHANGED <<file, pc, error, calls, console, output, workbook, exit_status, after_queue, dialog>>
    /\ UNCHANGED data_vars
    /\ UNCHANGED view_vars
    /\ UNCHANGED main_vars

\* MainView.start_analysis_thread without one of the paths: the message box
\* is shown and the handler returns when it is closed
StartRejected ==
    /\ view
    /\ dialog = "none"
    /\ run_button = "normal"
    /\ ~paths_given(input_file_var, output_file_var)
    /\ dialog' = "Missing Information"
    /\ UNCHANGED <<file, pc, error, calls, console, output, workbook, exit_status, after_queue,
                   input_file_var, output_file_var>>
    /\ UNCHANGED data_vars
    /\ UNCHANGED view_vars
    /\ UNCHANGED main_vars

\* the user closes the message box
CloseDialog ==
    /\ dialog # "none"
    /\ dialog' = "none"
    /\ UNCHANGED <<file, pc, error, calls, console, output, workbook, exit_status, after_queue,
                   input_file_var, output_file_var>>
    /\ UNCHANGED data_vars
    /\ UNCHANGED view_vars
    /\ UNCHANGED main_vars

\* MainView.start_analysis_thread with both files chosen: the Run button is
\* disabled, the status box cleared, and run_analysis started in a thread
StartAnalysis ==
    /\ view
    /\ dialog = "none"
    /\ run_button = "normal"
    /\ paths_given(input_file_var, output_file_var)
    /\ runs < MaxRuns
    /\ run_button' = "disabled"
    /\ status_text' = <<Msg("Starting analysis...", FALSE, FALSE)>>
    /\ runs' = runs + 1
    /\ pc' = "load"
    /\ calls' = <<>>
    /\ df_long' = <<>>
    /\ analysis_df' = EmptyFrame
    /\ error' = NoError
    /\ UNCHANGED <<file, clean_df, legacy_pc, console, output, workbook, exit_status,
                   view, after_queue>>
    /\ UNCHANGED main_vars
    /\ UNCHANGED entry_vars

\* the queue without its i-th callback
Without(queue, i) == SubSeq(queue, 1, i - 1) \o SubSeq(queue, i + 1, Len(queue))

\* the main loop runs the callback that is due: MainView.update_status
DeliverStatus ==
    /\ view
    /\ Len(after_queue) > 0
    /\ \E i \in {after_due(after_queue)} :
          /\ status_text' = Append(status_text, after_queue[i])
          /\ run_button' = IF reenable(after_queue[i].error, after_queue[i].final)
                           THEN "normal" ELSE run_button
          /\ after_queue' = Without(after_queue, i)
    /\ UNCHANGED <<file, pc, error, calls, console, output, workbook, exit_status, view, runs>>
    /\ UNCHANGED data_vars
    /\ UNCHANGED main_vars
    /\ UNCHANGED entry_vars

\* a step of the worker thread: run_analysis leaves the stage it is at
Running == pc \in {"load", "pivot", "report"}
Worker == Running /\ pc' # pc

NextGui ==
    \/ BrowseInput
    \/ BrowseOutput
    \/ ClearEntry
    \/ StartRejected
    \/ CloseDialog
    \/ StartAnalysis
    \/ LoadStage
    \/ PivotStage
    \/ ReportStage
    \/ DeliverStatus

SpecGui == InitGui /\ [][NextGui]_vars

\* The worker thread is scheduled until run_analysis returns: weak fairness
\* of its step, written out (a step is possible exactly at a running stage).
\* The main loop keeps running the callbacks that are due.
WorkerFairness == []<>(~Running) \/ []<><<Worker>>_vars

FairSpecGui == SpecGui /\ WorkerFairness /\ WF_vars(DeliverStatus)

(***************************************************************************)
(* The program from its entry point: run.py main.  main selects the mode   *)
(* from the flags: both flags run one command-line analysis, one flag      *)
(* alone ends in parser.error (argparse prints the usage and exits with    *)
(* status 2), no flag opens the window, or the interactive prompt when     *)
(* tkinter is missing.                                                     *)
(***************************************************************************)
\* run.py lines 82-94 and 102-110: the mode main selects
select_mode(a, gui) ==
    IF a.input /\ a.output THEN "cli"
    ELSE IF a.input \/ a.output THEN "usage"
    ELSE IF gui THEN "gui"
    ELSE "interactive"

InitMain ==
    /\ InitGuiFile
    /\ pc = "idle"
    /\ df_long = <<>>
    /\ analysis_df = EmptyFrame
    /\ error = NoError
    /\ clean_df = EmptyFrame
    /\ legacy_pc = "load"
    /\ calls = <<>>
    /\ console = <<>>
    /\ output = "none"
    /\ workbook = NoWorkbook
    /\ exit_status = <<>>
    /\ view = FALSE
    /\ after_queue = <<>>
    /\ status_text = <<>>
    /\ run_button = "normal"
    /\ runs = 0
    /\ args \in [input : BOOLEAN, output : BOOLEAN]
    /\ gui_available \in BOOLEAN
    /\ mode = "start"
    /\ input_file_var = ""
    /\ output_file_var = ""
    /\ dialog = "none"

\* main: the mode is selected; run_cli calls run_analysis, parser.error ends
\* the process, run_gui builds the view, which registers with the controller
Main ==
    /\ mode = "start"
    /\ mode' = select_mode(args, gui_available)
    /\ pc' = IF mode' = "cli" THEN "load" ELSE pc
    /\ exit_status' = IF mode' = "usage" THEN <<2>> ELSE exit_status
    /\ view' = (mode' = "gui")
    /\ UNCHANGED <<file, error, calls, console, output, workbook, after_queue,
                   status_text, run_button, runs, args, gui_available>>
    /\ UNCHANGED data_vars
    /\ UNCHANGED entry_vars

\* run_interactive_cli: the prompt is repeated until the file exists, then
\* run_cli calls run_analysis
InteractivePrompt ==
    /\ mode = "interactive"
    /\ pc = "idle"
    /\ file.kind # "missing"
    /\ pc' = "load"
    /\ UNCHANGED <<file, error, calls, console, output, workbook, exit_status, after_queue>>
    /\ UNCHANGED data_vars
    /\ UNCHANGED view_vars
    /\ UNCHANGED main_vars
    /\ UNCHANGED entry_vars

NextMain ==
    \/ Main
    \/ InteractivePrompt
    \/ LoadStage
    \/ PivotStage
    \/ ReportStage
    \/ CliExit
    \/ BrowseInput
    \/ BrowseOutput
    \/ ClearEntry
    \/ StartRejected
    \/ CloseDialog
    \/ StartAnalysis
    \/ DeliverStatus

SpecMain == InitMain /\ [][NextMain]_vars

(***************************************************************************)
(* What the documentation asks of the headers and cells, stated without    *)
(* the loader: the grammar <Spanish month>-<2 or 4 digits>, the dates it   *)
(* denotes, and the number a cell denotes.                                 *)
(***************************************************************************)
SpanishMonth(word) ==
    IF \E m \in 1..12 : month_map[m][1] = lower(word)
    THEN CHOOSE m \in 1..12 : month_map[m][1] = lower(word)
    ELSE 0

WellFormed(tok) ==
    LET parts == split(tok, "-")
    IN  /\ Len(parts) = 2
        /\ SpanishMonth(parts[1]) # 0
        /\ IsDigits(parts[2])
        /\ Len(parts[2]) \in {2, 4}

DocumentedDate(tok) ==
    LET parts == split(tok, "-")
    IN  Date(IF Len(parts[2]) = 2 THEN 2000 + DigitsVal(parts[2]) ELSE DigitsVal(parts[2]),
             SpanishMonth(parts[1]), 1)

WellFormedOf == [tok \in Headers |-> WellFormed(tok)]
DocumentedDateOf == [tok \in Headers |-> IF WellFormed(tok) THEN DocumentedDate(tok) ELSE NaT]

\* the number a cell denotes: its own value, or the value of its text read in
\* the European convention; NaN when it denotes none
Denotes(c) ==
    IF c.t = "num" THEN c
    ELSE IF c.t = "str" THEN ParseNumber(Replace(Replace(c.s, ".", ""), ",", "."))
    ELSE NaN

DenotesOf == [c \in AllValueCells |-> Denotes(read_cell(c))]

Loaded == pc \in {"pivot", "report", "done"}
Pivoted == pc \in {"report", "done"}
IsSheet == file.kind = "sheet"

\* the long rows whose (date, metric name) pair occurs with two values
HasCollision(df) ==
    LET names == [k \in 1..Len(df) |-> MetricName(df[k])]
    IN  \E a, b \in 1..Len(df) :
           /\ df[a].Date = df[b].Date
           /\ names[a] = names[b]
           /\ df[a].Value # df[b].Value

(***************************************************************************)
(* C1  Pivot uniqueness: when two observations have the same (date,        *)
(* metric name) and different values, the pivot ends in an error; it never *)
(* returns a table.                                                        *)
(***************************************************************************)
C1_PivotUniqueness == Pivoted => ~HasCollision(df_long)

(***************************************************************************)
(* C2  Column ordering: the metric columns of the pivoted table are the    *)
(* metrics of the canonical list in the canonical sequence, followed by    *)
(* the remaining metrics in first-seen order.                              *)
(***************************************************************************)
\* the order the report relies on (report_service.py, base_cols)
CanonicalColumns ==
    <<"Ore Mined - RGM - kt", "Overburden - RGM - kt", "Ore Mined - Sar - kt",
      "Overburden - Sar - kt", "Active Fleet Count (Aprox)", "Liter of Diesel Consumed">>

RECURSIVE FirstSeen(_, _)
FirstSeen(names, seen) ==
    IF Len(names) = 0 THEN <<>>
    ELSE IF Head(names) \in seen THEN FirstSeen(Tail(names), seen)
    ELSE <<Head(names)>> \o FirstSeen(Tail(names), seen \cup {Head(names)})

Keep(seq, S) == SelectSeq(seq, LAMBDA e : e \in S)

DocumentedColumns(df) ==
    LET names == [k \in 1..Len(df) |-> MetricName(df[k])]
        canon == Range(CanonicalColumns)
    IN  Keep(CanonicalColumns, Range(names)) \o FirstSeen(names, canon)

MetricColumns(tbl, df) == Keep(tbl.columns, {MetricName(df[k]) : k \in 1..Len(df)})

C2_ColumnOrdering ==
    Pivoted => MetricColumns(analysis_df, df_long) = DocumentedColumns(df_long)

(***************************************************************************)
(* C3  Unparseable values are dropped, never zero: a cell that denotes no  *)
(* number produces no observation, in the loader's long table and in the   *)
(* legacy loader's table alike.                                            *)
(***************************************************************************)
\* every long row carries the number some cell of its date column denotes
LongValuesDenoted ==
    \A k \in 1..Len(df_long) :
       \E i \in 1..Len(file.rows), j \in 1..Len(file.cols) :
          /\ ParseHeaderOf[file.cols[j]] = df_long[k].Date
          /\ CleanIdOf[read_cell(file.rows[i].Category)] = df_long[k].Category
          /\ CleanIdOf[read_cell(file.rows[i].SubCategory)] = df_long[k].SubCategory
          /\ CleanIdOf[read_cell(file.rows[i].Unit)] = df_long[k].Unit
          /\ notna(DenotesOf[file.rows[i].vals[j]])

\* every cell of the legacy table, which always holds a number, stands for a
\* cell that denotes a number
LegacyValuesDenoted ==
    \A i \in 1..Len(file.rows), j \in 1..Len(file.cols) :
       (/\ legacy_key(file.rows[i]) \in Range(clean_df.columns)
        /\ legacy_parse_date_of[file.cols[j]] \in Range(clean_df.index))
       => notna(DenotesOf[file.rows[i].vals[j]])

C3_UnparseableDropped ==
    /\ Loaded => LongValuesDenoted
    /\ legacy_pc = "done" => LegacyValuesDenoted

(***************************************************************************)
(* C4  An unparseable date token is a row-level failure: with a header     *)
(* outside the grammar the load still completes, the long table holds the  *)
(* observations of the well-formed headers and none of the malformed ones, *)
(* and no table shows a date made from a malformed header.                 *)
(***************************************************************************)
HasMalformedHeader == \E j \in 1..Len(file.cols) : ~WellFormedOf[file.cols[j]]
WellFormedDates ==
    {DocumentedDateOf[file.cols[j]] : j \in {h \in 1..Len(file.cols) : WellFormedOf[file.cols[h]]}}

C4_BadTokenNonFatal ==
    /\ (pc # "load" /\ IsSheet /\ Len(file.rows) > 0 /\ HasMalformedHeader)
       => /\ error.msg # "Failed to parse dates after cleaning"
          /\ {df_long[k].Date : k \in 1..Len(df_long)} \subseteq WellFormedDates
          /\ \A i \in 1..Len(file.rows), j \in 1..Len(file.cols) :
                (WellFormedOf[file.cols[j]] /\ notna(DenotesOf[file.rows[i].vals[j]]))
                => \E k \in 1..Len(df_long) :
                      df_long[k].Date = DocumentedDateOf[file.cols[j]]
    /\ (legacy_pc = "done" /\ HasMalformedHeader)
       => Range(clean_df.index) \subseteq WellFormedDates

(***************************************************************************)
(* C5  Date-token parsing: every observation of a well-formed header       *)
(* <month>-<year> is dated the first day of that month, in the year        *)
(* "20"+<year> for two digits and <year> for four; a sheet of well-formed  *)
(* headers never fails on its dates.                                       *)
(***************************************************************************)
C5_DateTokenParsing ==
    (pc # "load" /\ IsSheet /\ Len(file.rows) > 0 /\ ~HasMalformedHeader)
    => /\ error.msg # "Failed to parse dates after cleaning"
       /\ {df_long[k].Date : k \in 1..Len(df_long)} \subseteq WellFormedDates

(***************************************************************************)
(* C6  Numeric cleaning: every cell that denotes a number (a numeric cell, *)
(* or text in the European format) yields an observation with exactly that *)
(* number, also in a sheet that mixes numeric and text cells.              *)
(***************************************************************************)
C6_NumericCleaning ==
    Loaded =>
    \A i \in 1..Len(file.rows), j \in 1..Len(file.cols) :
       notna(DenotesOf[file.rows[i].vals[j]]) =>
       \E k \in 1..Len(df_long) :
          /\ df_long[k].Date = ParseHeaderOf[file.cols[j]]
          /\ df_long[k].Category = CleanIdOf[read_cell(file.rows[i].Category)]
          /\ df_long[k].SubCategory = CleanIdOf[read_cell(file.rows[i].SubCategory)]
          /\ df_long[k].Unit = CleanIdOf[read_cell(file.rows[i].Unit)]
          /\ df_long[k].Value = DenotesOf[file.rows[i].vals[j]].v

(***************************************************************************)
(* C7  Identifier cleaning: in every observation each identifier is either *)
(* absent or a text without blanks at its ends that is not empty and not   *)
(* "nan" or "none" in any letter case.                                     *)
(***************************************************************************)
CleanIdentifier(c) ==
    \/ isna(c)
    \/ /\ c.t = "str"
       /\ strip(c.s) = c.s
       /\ lower(c.s) \notin {"", "nan", "none"}

C7_IdentifierCleaning ==
    Loaded =>
    \A k \in 1..Len(df_long) :
       /\ CleanIdentifier(df_long[k].Category)
       /\ CleanIdentifier(df_long[k].SubCategory)
       /\ CleanIdentifier(df_long[k].Unit)

(***************************************************************************)
(* C8  Drop policy: no observation of the long table has an absent         *)
(* category.                                                               *)
(***************************************************************************)
C8_AbsentCategoryDropped ==
    Loaded => \A k \in 1..Len(df_long) : notna(df_long[k].Category)

(***************************************************************************)
(* C9  MetricKey construction: the column an observation falls into is     *)
(* named by its non-absent identifiers, in the order category,             *)
(* subcategory, unit, joined with " - "; absent identifiers add neither    *)
(* text nor separator.                                                     *)
(***************************************************************************)
\* the name, written out for each pattern of absent identifiers
DocumentedName(c, sc, u) ==
    CASE notna(c) /\ notna(sc) /\ notna(u) -> c.s \o " - " \o sc.s \o " - " \o u.s
      [] notna(c) /\ notna(sc) /\ isna(u)  -> c.s \o " - " \o sc.s
      [] notna(c) /\ isna(sc)  /\ notna(u) -> c.s \o " - " \o u.s
      [] notna(c) /\ isna(sc)  /\ isna(u)  -> c.s
      [] isna(c)  /\ notna(sc) /\ notna(u) -> sc.s \o " - " \o u.s
      [] isna(c)  /\ notna(sc) /\ isna(u)  -> sc.s
      [] isna(c)  /\ isna(sc)  /\ notna(u) -> u.s
      [] isna(c)  /\ isna(sc)  /\ isna(u)  -> ""

DerivedColumns ==
    {"Total Ore Mined (kt)", "Total Overburden (kt)", "Total Material (kt)",
     "Efficiency (kt per Liter)", "Productivity (kt per Fleet)"}

C9_MetricKeyConstruction ==
    Pivoted =>
    LET documented == {DocumentedName(df_long[k].Category, df_long[k].SubCategory,
                                      df_long[k].Unit) : k \in 1..Len(df_long)}
    IN  /\ documented \subseteq Range(analysis_df.columns)
        /\ Range(analysis_df.columns) \subseteq documented \cup DerivedColumns

\* a table holds a name built around absent identifiers
C9_Witness ==
    /\ Pivoted
    /\ \E k \in 1..Len(df_long) :
          /\ notna(df_long[k].Category) /\ isna(df_long[k].SubCategory)
          /\ notna(df_long[k].Unit)
          /\ (df_long[k].Category.s \o " - " \o df_long[k].Unit.s)
                \in Range(analysis_df.columns)

(***************************************************************************)
(* C10  Row index: the pivoted table has exactly one row per distinct      *)
(* observation date, in strictly ascending order, and no row for a month   *)
(* without observation.                                                    *)
(***************************************************************************)
C10_RowIndex ==
    Pivoted =>
    /\ \A r \in 1..(Len(analysis_df.index) - 1) :
          DateLess(analysis_df.index[r], analysis_df.index[r + 1])
    /\ Range(analysis_df.index) = {df_long[k].Date : k \in 1..Len(df_long)}
    /\ Len(analysis_df.data) = Len(analysis_df.index)

\* a table from headers given in descending order, a month apart or more,
\* each date observed more than once
C10_Witness ==
    /\ Pivoted
    /\ Len(file.cols) = 2
    /\ Len(df_long) > 2
    /\ DateLess(ParseHeaderOf[file.cols[2]], ParseHeaderOf[file.cols[1]])
    /\ analysis_df.index = <<[y |-> 2020, m |-> 2, d |-> 1], [y |-> 2021, m |-> 3, d |-> 1]>>

(***************************************************************************)
(* C11  No derived metrics in the core: the columns of the pivoted table   *)
(* are exactly the distinct metric names of the observations; the pivot    *)
(* adds no total, ratio, efficiency or productivity column.                *)
(***************************************************************************)
C11_NoDerivedMetrics ==
    Pivoted =>
    Range(analysis_df.columns) = {MetricName(df_long[k]) : k \in 1..Len(df_long)}

(***************************************************************************)
(* C12  Cell fidelity: with at most one observation per (date, metric),    *)
(* each cell of a metric column of the pivoted table holds the value of    *)
(* its observation, and is absent (never 0) without one; the sample of two *)
(* metrics over ene-20 and feb-20 gives four observations and a table of   *)
(* two rows and two columns with the source values.  The legacy analyzer's *)
(* table shows no number for a cell that denotes none.                     *)
(***************************************************************************)
Observed(date, name) ==
    {df_long[k].Value : k \in {h \in 1..Len(df_long) :
                                  df_long[h].Date = date /\ MetricName(df_long[h]) = name}}

CellsFaithful ==
    \A r \in 1..Len(analysis_df.index), c \in 1..Len(analysis_df.columns) :
       analysis_df.columns[c] \in {MetricName(df_long[k]) : k \in 1..Len(df_long)}
       => /\ Observed(analysis_df.index[r], analysis_df.columns[c]) = {}
             => analysis_df.data[r][c] = NaN
          /\ \A v \in Observed(analysis_df.index[r], analysis_df.columns[c]) :
                analysis_df.data[r][c] = Num(v)

EndToEndTable ==
    [index |-> <<Date(2020, 1, 1), Date(2020, 2, 1)>>,
     columns |-> <<"Active Fleet Count (Aprox)", "Ore Mined - RGM - kt">>,
     data |-> << <<V549, V406>>, <<V406, V549>> >>]

C12_CellFidelity ==
    /\ (Pivoted /\ ~HasCollision(df_long)) => CellsFaithful
    /\ (file = EndToEndSheet /\ pc \notin {"load", "pivot"})
       => (Len(df_long) = 4 /\ analysis_df = EndToEndTable)
    /\ legacy_pc = "analyzed" => LegacyValuesDenoted

(***************************************************************************)
(* C13  Structural input error: for a sheet with fewer than 4 columns and  *)
(* for a sheet without data rows, the load itself ends in an error; it     *)
(* returns no table, not even an empty one.                                *)
(***************************************************************************)
C13_StructuralInputError ==
    (pc # "load" /\ IsSheet /\ (Len(file.cols) = 0 \/ Len(file.rows) = 0))
    => /\ error.exc # "none"
       /\ error.msg # "No valid data found in the file."

(***************************************************************************)
(* C17  Idempotent normalization: the cleaning steps of the loader applied *)
(* to the observations the loader returned give the same observations.     *)
(***************************************************************************)
\* lines 76-81 and 105-110 on one returned row: the Value column is numeric
CleanAgain(row) ==
    [row EXCEPT !.Category = CleanAgainOf[row.Category],
                !.SubCategory = CleanAgainOf[row.SubCategory],
                !.Unit = CleanAgainOf[row.Unit],
                !.Value = CleanValue([Value |-> Num(row.Value), vtype |-> "float64"], TRUE).v]

C17_IdempotentNormalization ==
    Loaded => \A k \in 1..Len(df_long) : CleanAgain(df_long[k]) = df_long[k]

(***************************************************************************)
(* C14  Empty-dataset guard: when the loaded observation set is empty (a   *)
(* sheet without rows, or one whose every value is unparseable) the run    *)
(* ends in an error after the load: the pivot and the report generator are *)
(* never called and nothing is written.  The pivot is never called on an   *)
(* empty observation set, the report generator never on an empty table,    *)
(* and the report generator itself refuses an empty table before it        *)
(* creates any output.                                                     *)
(***************************************************************************)
\* no value cell of the sheet denotes a number
NoObservation ==
    /\ IsSheet
    /\ \A i \in 1..Len(file.rows) : \A j \in 1..Len(file.rows[i].vals) :
          isna(DenotesOf[file.rows[i].vals[j]])

C14_EmptyDatasetGuard ==
    /\ (NoObservation /\ pc # "load")
       => /\ pc = "failed"
          /\ error.exc # "none"
          /\ calls = <<"load">>
          /\ output = "none"
    /\ "pivot" \in Range(calls) => Len(df_long) > 0
    /\ "report" \in Range(calls) => ~empty(analysis_df)
    /\ \A io \in IOOutcomes :
          /\ generate_report(EmptyFrame, io).exc = "ValueError"
          /\ generate_report(EmptyFrame, io).output = "none"

C14_Witness ==
    /\ NoObservation
    /\ Len(file.rows) > 0
    /\ Len(file.cols) > 0
    /\ pc = "failed"
    /\ error.msg = "No valid data found in the file."

(***************************************************************************)
(* C15  Stage order: the stages run at most once each, in the order load,  *)
(* pivot, report; the report starts only after the load and the pivot gave *)
(* non-empty tables; after a failure no further stage starts, and when the *)
(* load or the pivot failed no output file is written.                     *)
(***************************************************************************)
StageOrder == <<"load", "pivot", "report">>

StagesInOrder ==
    /\ Len(calls) <= Len(StageOrder)
    /\ calls = SubSeq(StageOrder, 1, Len(calls))
    /\ "report" \in Range(calls) => (Len(df_long) > 0 /\ ~empty(analysis_df))
    /\ output # "none" => calls = StageOrder

C15_StageOrder ==
    [][/\ StagesInOrder'
       /\ pc = "failed" => (pc' = "failed" /\ calls' = calls /\ output' = output)]_vars

C15_Witness ==
    /\ pc = "done"
    /\ calls = StageOrder
    /\ output = "written"
    /\ exit_status = <<0>>

(***************************************************************************)
(* C16  Frame effect of the pivot: get_analysis_dataframe leaves the long  *)
(* table it is given as it was; no MetricName column is added to it.       *)
(***************************************************************************)
C16_PivotFrameEffect == [][pc = "pivot" => df_long' = df_long]_vars

C16_Witness ==
    /\ pc = "report"
    /\ Len(df_long) > 1
    /\ Len(analysis_df.columns) > 1

(***************************************************************************)
(* C20  CLI exit status: a command-line run whose input is missing or      *)
(* cannot be parsed ends with a non-zero exit status after an error        *)
(* message; a successful run ends with status 0 after printing the path    *)
(* of the report.                                                          *)
(***************************************************************************)
C20_CliExitStatus ==
    exit_status # <<>>
    => /\ (pc = "failed" /\ calls = <<"load">>)
          => (exit_status # <<0>> /\ console[Len(console)].error)
       /\ pc = "done"
          => /\ exit_status = <<0>>
             /\ console[Len(console)].message = "Report saved successfully to:\n" \o OutputPath

(***************************************************************************)
(* C18  Ordering of status messages: the messages the worker emits with    *)
(* _update_status are applied to the view by update_status in the order of *)
(* their emission, none lost and none twice, however the worker and the    *)
(* main loop interleave: the status box after its first line, followed by  *)
(* the callbacks still scheduled, is the sequence emitted in this run.     *)
(***************************************************************************)
\* the positions of console printed in run r: those after r - 1 final messages
RunPositions(r) ==
    {i \in 1..Len(console) :
        Cardinality({j \in 1..(i - 1) : console[j].final}) = r - 1}

\* the messages run_analysis has emitted in the current run
Emitted ==
    [k \in 1..Cardinality(RunPositions(runs)) |->
        console[(CHOOSE i \in RunPositions(runs) : \A j \in RunPositions(runs) : i <= j)
                + k - 1]]

C18_StatusOrder ==
    (view /\ runs > 0)
    => /\ status_text[1] = Msg("Starting analysis...", FALSE, FALSE)
       /\ Tail(status_text) \o after_queue = Emitted

C18_Witness ==
    /\ view
    /\ Len(status_text) >= 3
    /\ Len(after_queue) >= 2
    /\ pc = "report"

(***************************************************************************)
(* C19  Termination of a run: every run_analysis started from the view     *)
(* ends, in success or in a caught error, and emits exactly one final      *)
(* message, its last; update_status re-enables the Run button when it      *)
(* applies that message, so the button is never left disabled forever.     *)
(***************************************************************************)
Finals == {k \in 1..Len(Emitted) : Emitted[k].final}

OneFinalMessage ==
    (view /\ runs > 0)
    => /\ pc \in {"load", "pivot", "report"} => Finals = {}
       /\ pc \in {"done", "failed"} => Finals = {Len(Emitted)}
       /\ (pc = "failed") = (error.exc # "none")

C19_RunTerminates ==
    /\ []OneFinalMessage
    /\ [][(Len(status_text') = Len(status_text) + 1 /\ status_text'[Len(status_text')].final)
          => run_button' = "normal"]_vars
    /\ Running ~> (pc \in {"done", "failed"})
    /\ (run_button = "disabled") ~> (run_button = "normal")

C19_Witness ==
    /\ view
    /\ runs > 0
    /\ run_button = "normal"
    /\ pc = "failed"
    /\ status_text[Len(status_text)].final
    /\ after_queue = <<>>

(***************************************************************************)
(* C21  Mode selection: with both the input and the output flag the        *)
(* program runs one command-line analysis; when the input flag or the      *)
(* output flag is absent it opens the window, or the interactive prompt    *)
(* when no GUI is available, and does not fail.                            *)
(***************************************************************************)
C21_ModeSelection ==
    mode # "start"
    => /\ (args.input /\ args.output) => (mode = "cli" /\ ~view /\ runs = 0)
       /\ (~args.input \/ ~args.output)
          => /\ mode = (IF gui_available THEN "gui" ELSE "interactive")
             /\ exit_status \in {<<>>, <<0>>}

(***************************************************************************)
(* C22  Typed loader errors: a load that fails ends in FileNotFoundError   *)
(* when the path does not exist, and in ValueError with a message for      *)
(* every other failure of reading, reshaping or date parsing; a missing    *)
(* file is never reported as ValueError and no other type leaves the       *)
(* loader.                                                                 *)
(***************************************************************************)
\* the load itself has failed (not the emptiness check of the controller)
LoadRaised ==
    /\ pc = "failed"
    /\ calls = <<"load">>
    /\ error.msg # "No valid data found in the file."

C22_TypedLoaderErrors ==
    LoadRaised
    => /\ error.exc \in {"FileNotFoundError", "ValueError"}
       /\ (error.exc = "FileNotFoundError") = (file.kind = "missing")
       /\ error.exc = "ValueError" => error.msg # ""

C22_Witness ==
    /\ LoadRaised
    /\ error.exc = "FileNotFoundError"
    /\ file.kind = "missing"

(***************************************************************************)
(* C23  View state is changed on the UI thread only: a step of the worker  *)
(* thread running run_analysis changes neither the status box nor the Run  *)
(* button; each change of them is made by update_status, run by the main   *)
(* loop for a callback scheduled with root.after, or by                    *)
(* start_analysis_thread.                                                  *)
(***************************************************************************)
\* a stage of run_analysis has run: one more service was called
WorkerStep == Len(calls') = Len(calls) + 1

\* the main loop has run one scheduled callback
CallbackStep ==
    /\ Len(after_queue) > 0
    /\ after_queue' = Tail(after_queue)
    /\ status_text' = Append(status_text, Head(after_queue))

\* start_analysis_thread has started a run
StartStep == runs' = runs + 1 /\ Len(status_text') = 1

C23_ViewOnUiThread ==
    [][/\ WorkerStep => (status_text' = status_text /\ run_button' = run_button)
       /\ (status_text' # status_text \/ run_button' # run_button)
          => (~WorkerStep /\ (CallbackStep \/ StartStep))]_vars

C23_Witness ==
    /\ view
    /\ pc = "pivot"
    /\ Len(status_text) = 2
    /\ Len(after_queue) = 1
    /\ run_button = "disabled"

(***************************************************************************)
(* C24  At most one report writer in the window: a worker is started only  *)
(* when no worker is between the start of its load and its final message,  *)
(* and, after the first, only when the final (or error) message of the     *)
(* worker before it has been delivered; two workers never write the        *)
(* output file at the same time.                                           *)
(***************************************************************************)
C24_OneWriter ==
    [][runs' = runs + 1
       => /\ ~Running
          /\ after_queue = <<>>
          /\ runs > 0 => /\ pc \in {"done", "failed"}
                         /\ status_text[Len(status_text)].final
                            \/ status_text[Len(status_text)].error]_vars

C24_Witness ==
    /\ view
    /\ runs = 2
    /\ pc = "report"
    /\ run_button = "disabled"

(***************************************************************************)
(* C29  Rejected start: start_analysis_thread with an empty input path or  *)
(* an empty output path starts no worker, leaves the Run button enabled    *)
(* and neither clears the status box nor appends to it; a worker is        *)
(* started only with both paths given.                                     *)
(***************************************************************************)
C29_RejectedStart ==
    [][/\ (dialog = "none" /\ dialog' # "none")
          => /\ input_file_var = "" \/ output_file_var = ""
             /\ pc' = pc
             /\ runs' = runs
             /\ calls' = calls
             /\ run_button = "normal"
             /\ run_button' = "normal"
             /\ status_text' = status_text
             /\ after_queue' = after_queue
       /\ runs' = runs + 1 => (input_file_var # "" /\ output_file_var # "")]_vars

C29_Witness ==
    /\ dialog = "Missing Information"
    /\ input_file_var # ""
    /\ output_file_var = ""
    /\ run_button = "normal"
    /\ Len(status_text) > 1

(***************************************************************************)
(* C28  The metric name is injective on cleaned triples: two observations  *)
(* whose (category, subcategory, unit) differ after cleaning have          *)
(* different metric names, so two metrics never share a column of the      *)
(* pivoted table.                                                          *)
(***************************************************************************)
Triple(row) == <<row.Category, row.SubCategory, row.Unit>>

C28_MetricKeyInjective ==
    Loaded
    => \A a, b \in 1..Len(df_long) :
          Triple(df_long[a]) # Triple(df_long[b])
          => MetricName(df_long[a]) # MetricName(df_long[b])

(***************************************************************************)
(* C25  Report columns show the metric they are labelled with: when the    *)
(* table holds the six metrics of the report, every source column name of  *)
(* the Correlation Analysis sheet is the header of the Processed_Data      *)
(* column at the letter base_cols gives it.                                *)
(***************************************************************************)
SixMetrics == {base_cols[i][1] : i \in 2..Len(base_cols)}

\* the header of the column at the letter, "" where none was written
header_at(wb, sheet, col_letter) ==
    LET pos == <<0, column_index(col_letter) - 1>>
    IN  IF pos \in DOMAIN wb.sheets[sheet] THEN wb.sheets[sheet][pos].text ELSE ""

C25_LabelledColumns ==
    (workbook.written /\ SixMetrics \subseteq Range(analysis_df.columns))
    => \A i \in 1..Len(base_cols) :
          header_at(workbook, data_sheet_name, base_cols[i][2]) = base_cols[i][1]

(***************************************************************************)
(* C26  KPI formulas: in every data row of the Correlation Analysis sheet  *)
(* Total Ore is the sum of the two ore cells, Total Overburden the sum of  *)
(* the two overburden cells, Total Material the sum of the two totals,     *)
(* Efficiency Total Material over the diesel cell, Productivity Total      *)
(* Material over the fleet cell, and the strip ratio of a site its         *)
(* overburden cell over its ore cell; every formula reads cells of its own *)
(* row only, and a ratio whose denominator is zero or missing is 0.        *)
(***************************************************************************)
\* the 0-based column of the sheet whose header is the name
header_col(wb, sheet, name) ==
    CHOOSE c \in 0..(Len(Letters) - 1) :
       /\ <<0, c>> \in DOMAIN wb.sheets[sheet]
       /\ wb.sheets[sheet][<<0, c>>] = TextCell(name)

\* what the sheet shows in data row k under the header of the name
Shown(wb, name, k) ==
    cell_value(wb, calc_sheet_name,
               get_column_letter(header_col(wb, calc_sheet_name, name) + 1), k + 1)

Ratio(a, b) == IF b.v = Zero THEN NumV(Zero) ELSE NumV(FDiv(a.v, b.v))

KpiNames == {calc_cols[i][1] : i \in 1..Len(calc_cols)}

OwnRow(wb, name, k) ==
    LET cell == wb.sheets[calc_sheet_name][<<k, header_col(wb, calc_sheet_name, name)>>]
    IN  /\ cell.kind = "formula"
        /\ \A i \in 1..Len(cell.formula.refs) :
              cell.formula.refs[i].sheet = "" /\ cell.formula.refs[i].row = k + 1

C26_KpiFormulas ==
    workbook.written
    => \A k \in 1..Len(analysis_df.index) :
          /\ \A name \in KpiNames : OwnRow(workbook, name, k)
          /\ Shown(workbook, "Total Ore (kt)", k)
                = NumV(FAdd(Shown(workbook, "Ore Mined - RGM - kt", k).v,
                            Shown(workbook, "Ore Mined - Sar - kt", k).v))
          /\ Shown(workbook, "Total Overburden (kt)", k)
                = NumV(FAdd(Shown(workbook, "Overburden - RGM - kt", k).v,
                            Shown(workbook, "Overburden - Sar - kt", k).v))
          /\ Shown(workbook, "Total Material (kt)", k)
                = NumV(FAdd(Shown(workbook, "Total Ore (kt)", k).v,
                            Shown(workbook, "Total Overburden (kt)", k).v))
          /\ Shown(workbook, "Efficiency (kt per Liter)", k)
                = Ratio(Shown(workbook, "Total Material (kt)", k),
                        Shown(workbook, "Liter of Diesel Consumed", k))
          /\ Shown(workbook, "Productivity (kt per Fleet)", k)
                = Ratio(Shown(workbook, "Total Material (kt)", k),
                        Shown(workbook, "Active Fleet Count (Aprox)", k))
          /\ Shown(workbook, "RGM Strip Ratio", k)
                = Ratio(Shown(workbook, "Overburden - RGM - kt", k),
                        Shown(workbook, "Ore Mined - RGM - kt", k))
          /\ Shown(workbook, "Sar Strip Ratio", k)
                = Ratio(Shown(workbook, "Overburden - Sar - kt", k),
                        Shown(workbook, "Ore Mined - Sar - kt", k))

\* a saved report with a row whose ratio has a zero denominator and a row
\* whose ratios all divide
C26_Witness ==
    /\ workbook.written
    /\ Len(analysis_df.index) = 2
    /\ Shown(workbook, "Ore Mined - Sar - kt", 2).v = Zero
    /\ Shown(workbook, "Overburden - Sar - kt", 2).v # Zero
    /\ Shown(workbook, "Sar Strip Ratio", 2) = NumV(Zero)
    /\ Shown(workbook, "Sar Strip Ratio", 1).v # Zero
    /\ Shown(workbook, "Total Ore (kt)", 1).v
          # Shown(workbook, "Ore Mined - RGM - kt", 1).v

(***************************************************************************)
(* C27  Report row alignment: the k-th data row of the Correlation         *)
(* Analysis sheet links to the row of Processed_Data that holds the k-th   *)
(* date of the table; no formula refers to the header row or to a row      *)
(* after the last data row; the named table covers the header row and the  *)
(* n data rows over the 14 columns, and nothing else.                      *)
(***************************************************************************)
\* the positions a range of the sheet covers
RangeCells(range) ==
    ((range.first_row - 1)..(range.last_row - 1))
    \X ((column_index(range.first_col) - 1)..(column_index(range.last_col) - 1))

C27_RowAlignment ==
    workbook.written
    => LET n == Len(analysis_df.index)
           calc == workbook.sheets[calc_sheet_name]
           data == workbook.sheets[data_sheet_name]
       IN  /\ \A k \in 1..n : \A col \in 0..(Len(base_cols) - 1) :
                 /\ <<k, col>> \in DOMAIN calc
                 /\ calc[<<k, col>>].kind = "formula"
                 /\ calc[<<k, col>>].formula.fn = "REF"
                 /\ calc[<<k, col>>].formula.refs[1].sheet = data_sheet_name
                 /\ <<calc[<<k, col>>].formula.refs[1].row - 1, 0>> \in DOMAIN data
                 /\ data[<<calc[<<k, col>>].formula.refs[1].row - 1, 0>>]
                       = DateCell(analysis_df.index[k])
           /\ \A pos \in DOMAIN calc :
                 calc[pos].kind = "formula"
                 => \A i \in 1..Len(calc[pos].formula.refs) :
                       calc[pos].formula.refs[i].row \in 2..(n + 1)
           /\ RangeCells(workbook.table.range) = (0..n) \X (0..13)
           /\ RangeCells(workbook.table.range) = DOMAIN calc

C27_Witness ==
    /\ workbook.written
    /\ Len(analysis_df.index) = 2
    /\ workbook.sheets[calc_sheet_name][<<2, 0>>].formula.refs[1].row = 3

(***************************************************************************)
(* C30  Column map consistency: for every name of the column map of the    *)
(* Correlation Analysis sheet, name_idx gives the 0-based position where   *)
(* the header of the name is written, and the letter stored for the name   *)
(* is the letter of that position; name_idx fails with KeyError for a name *)
(* outside its list.                                                       *)
(***************************************************************************)
\* names that are no column of the Correlation Analysis sheet
OtherNames ==
    (Range(analysis_df.columns) \cup {"", "date", "Total Ore", "Sar Strip Ratio "})
    \ {col_map[i][1] : i \in 1..Len(col_map)}

C30_ColumnMapConsistent ==
    workbook.written
    => /\ \A i \in 1..Len(col_map) :
             /\ name_idx(col_map[i][1]).exc = "none"
             /\ workbook.sheets[calc_sheet_name][<<0, name_idx(col_map[i][1]).idx>>]
                   = TextCell(col_map[i][1])
             /\ col_map[i][2] = get_column_letter(name_idx(col_map[i][1]).idx + 1)
       /\ \A name \in OtherNames : name_idx(name).exc = "KeyError"

C30_Witness ==
    /\ workbook.written
    /\ "Total Ore Mined (kt)" \in OtherNames
    /\ workbook.sheets[calc_sheet_name][<<0, 13>>] = TextCell("Sar Strip Ratio")

====
